---- MODULE Spec2Model ----
(***************************************************************************)
(* Client-side data orchestration of the WhatNext front-end: per-view      *)
(* loads guarded by a closured "alive"/"cancelled" flag, optimistic        *)
(* mutations of the favourite / rating / hidden state, and the session     *)
(* store (AuthProvider + token in localStorage).                           *)
(*                                                                         *)
(* Every await in the source is one suspension point: a handler is split   *)
(* into the step that runs up to the await (the request is then in flight) *)
(* and the step that runs when the promise settles.  A React state setter  *)
(* with an updater function (setX(prev => ...)) is applied to the state    *)
(* at the time the step runs; a value read from the render closure is      *)
(* captured in the in-flight record when the handler is called.            *)
(***************************************************************************)
EXTENDS Integers, FiniteSets, Sequences, TLC

(* ----------------------------- bounds --------------------------------- *)
\* shows are identified by tmdb ids 1..MaxShow
MaxShow == 2
\* number of effect runs (load triggers) of one view
MaxLoads == 3
\* number of mutation requests of one kind that are in flight together
MaxInFlight == 2
\* number of handleToggleFav calls of the recommendations page in flight together
MaxFavCalls == 1
\* number of access tokens the server issues
MaxTok == 2

Shows == 1..MaxShow
Null == "null"

(***************************************************************************)
(* State.                                                                  *)
(***************************************************************************)
VARIABLES
  route,        \* the <Route> of App.tsx that is mounted
  \* ---- SearchPage: the search effect (pages/search.tsx) ----
  query,        \* useState("Breaking Bad")
  results,      \* useState<Show[]>([]): the tmdb ids of the shown results
  loading,      \* useState(false)
  err,          \* useState<string | null>(null)
  sRuns,        \* effect runs awaiting searchShows(): [gen, alive]
  sGen,         \* number of runs of the search effect so far
  sCommit,      \* history: the effect run that last wrote results / err
  sDropped,     \* history: a stale run settled after a later run committed
  \* ---- ShowDetails: the loadShow effect (components/ShowDetails) ----
  dId,          \* the route parameter as a number; 0 stands for an invalid one
  dShow,        \* useState<TmdbShowDetails | null>(null): id of the shown show, 0 for null
  dLoading,     \* useState(true)
  dErr,         \* useState<string | null>(null)
  dRuns,        \* effect runs awaiting fetch(): [gen, id, cancelled]
  dGen,
  dCommit,      \* history: the effect run that last wrote show / err / loading
  dDropped,     \* history: a cancelled run settled after a later run committed
  \* ---- RecsPage (pages/recs.tsx) ----
  rItems,             \* items: the tmdb ids of the shown recommendations
  rLoading,           \* loading
  rErr,               \* err
  selectedGenres,     \* selectedGenres
  favorites,          \* favorites: Show[] as a bag, tmdb id -> number of entries
  favoritesLoaded,
  hasEnoughFavorites,
  rFavLoad,           \* loadFavorites() is awaiting listFavoriteShows()
  rFavCalls,          \* handleToggleFav calls in flight: [slot, tmdb, isCurrentlyFav]
  rLoads,             \* loadRecs() calls awaiting getRecsV3(): [gen, genres]
  rGen,               \* number of loadRecs() calls so far
  rCommit,            \* history: the loadRecs() call whose response was applied last
  \* ---- SearchPage: favourites and ratings (pages/search.tsx) ----
  userId,       \* user?.id ?? 0
  favSet,       \* useState<Set<number>>(new Set())
  ratingsMap,   \* useState<Record<number, number>>({}): tmdb id -> rating, 0 = no entry
  libRuns,      \* runs of the favourites + ratings effect awaiting Promise.all: [gen, alive]
  libGen,       \* number of runs of that effect so far
  favCalls,     \* toggleFav calls awaiting add/removeFavorite, in the order issued
  fLast,        \* history: the toggleFav call the last step settled, NoLast otherwise
  alertMsg,     \* the message the last step passed to alert(), Null if it did not
  fMon,         \* history: progress of two sequential toggles of one show
  \* ---- HeartButton (components/HeartButton.tsx) ----
  hCan,         \* canToggle = !!tmdbId && userId > 0
  hFav,         \* useState(!!isFavorite)
  hBusy,        \* useState(false)
  hCall,        \* toggle() calls awaiting add/removeFavorite: [fav]
  hMon,         \* history: progress of two sequential toggles
  hProp,        \* the isFavorite prop the parent passes to the HeartButton
  \* ---- rating: rate of SearchPage, handleRate of RecsPage ----
  rateCalls,    \* calls awaiting upsertRating(), in the order issued: [tmdb, rating]
  rRatings,     \* RecsPage useState<UserRating[]>([]): sequence of [tmdb_id, rating]
  rRatLoad,     \* RecsPage loadRatings() is awaiting listRatings()
  rtLast,       \* history: the rating call the last step settled, NoRate otherwise
  rtMon,        \* history: progress of two overlapping rating calls for one show
  \* ---- hide: hide of SearchPage, handleHide of RecsPage and DiscoverPage ----
  sections,     \* DiscoverPage useState([]): sequence of [title, items]
  hideCalls,    \* calls awaiting markNotInterested(), in the order issued: [tmdb]
  hdLast,       \* history: the hide call the last step settled, NoHide otherwise
  \* ---- session: AuthProvider, the token helpers and http of the api module ----
  apiVariant,   \* which of the api modules of the repository the build links
  token,        \* localStorage["access_token"], 0 = no entry
  user,         \* AuthProvider useState<User | null>(null): the user's id, 0 = null
  aLoading,     \* AuthProvider useState(true)
  authReqs,     \* requests awaiting fetch(), in the order issued: [kind, tok]
  userVia,      \* history: the token carried by the me() call that produced user
  aLast,        \* history: the response http() handled, or the logout() run, in the last step
  aSent,        \* history: the request the last step sent, NoSent otherwise
  xBase,        \* BASE of the api module: the routing prefix, or host + prefix
  xReq,         \* the api call in progress or returned: [helper, method, path, url, sent, lookups, stage]
  xOut,         \* what the last api call returned or threw: [status, body, thrown, message]
  srvFav,       \* the favourites of the user as the server holds them
  syOk,         \* history: no favourite request of the page was refused so far
  pItems,       \* RatingsPage items: the list of [tmdb_id, rating], in display order
  pCalls,       \* RatingsPage: the upsertRating calls in flight: [kind, tmdb, rating]
  pBusyAdd,     \* RatingsPage busyAdd
  pBusyRows,    \* the tmdb ids of the rows whose busy is true
  pLast,        \* history: the handler the last step ran, or the answer it handled
  guardView     \* what ProtectedRoute rendered last

loadVars == <<query, results, loading, err, sRuns, sGen, sCommit, sDropped,
              dId, dShow, dLoading, dErr, dRuns, dGen, dCommit, dDropped>>

recsVars == <<rItems, rLoading, rErr, selectedGenres, favorites, favoritesLoaded,
              hasEnoughFavorites, rFavLoad, rFavCalls, rLoads, rGen, rCommit>>

favVars == <<userId, favSet, ratingsMap, libRuns, libGen, favCalls, fLast, alertMsg, fMon>>

heartVars == <<hCan, hFav, hBusy, hCall, hMon, hProp>>

rateVars == <<rateCalls, rRatings, rRatLoad, rtLast, rtMon>>

hideVars == <<sections, hideCalls, hdLast>>

authVars == <<apiVariant, token, user, aLoading, authReqs, userVia, aLast, aSent>>

httpVars == <<xBase, xReq, xOut>>

syncVars == <<srvFav, syOk>>

pageVars == <<pItems, pCalls, pBusyAdd, pBusyRows, pLast>>

guardVars == <<guardView>>

restVars == <<rateVars, hideVars, authVars, httpVars, syncVars, pageVars, guardVars>>

vars == <<route, loadVars, recsVars, favVars, heartVars, restVars>>

(***************************************************************************)
(* SearchPage search effect.                                               *)
(***************************************************************************)
\* the queries the user can type; " " and "" are blank after trim()
Queries == {"Breaking Bad", "Dark", " ", ""}
IsBlank(q) == q \in {" ", ""}

\* Error.message values a rejected request can carry ("" = no message)
ErrMsgs == {"HTTP 500", ""}

\* e?.message || fallback
MsgOr(m, fallback) == IF m = "" THEN fallback ELSE m

\* return () => { alive = false }
SearchCleanup == {[r EXCEPT !.alive = FALSE] : r \in sRuns}

\* a run() that commits although its effect was cleaned up
SearchIsStale_Never(r) == FALSE

\* if (!alive) return;  -- the guard in front of every commit of run()
SearchIsStale(r) == ~r.alive

SearchInit ==
  /\ query = "Breaking Bad"
  /\ results = {}
  /\ loading = TRUE
  /\ err = Null
  /\ sGen = 1
  /\ sRuns = {[gen |-> 1, alive |-> TRUE]}
  /\ sCommit = 0
  /\ sDropped = FALSE

\* setQuery(q): the effect's cleanup runs, then the effect runs again
SetQuery(q) ==
  /\ route = "/search"
  /\ q # query
  /\ sGen < MaxLoads
  /\ query' = q
  /\ sGen' = sGen + 1
  /\ IF ~IsBlank(q)
       THEN /\ loading' = TRUE
            /\ err' = Null
            /\ sRuns' = SearchCleanup \cup {[gen |-> sGen + 1, alive |-> TRUE]}
            /\ UNCHANGED <<results, sCommit>>
       ELSE /\ results' = {}
            /\ sCommit' = sGen + 1
            /\ sRuns' = SearchCleanup
            /\ UNCHANGED <<loading, err>>
  /\ UNCHANGED sDropped

\* await searchShows(query) resolved with data
SearchResolve(r, data) ==
  /\ route = "/search"
  /\ r \in sRuns
  /\ sRuns' = sRuns \ {r}
  /\ IF SearchIsStale(r)
       THEN /\ sDropped' = (sDropped \/ sCommit > r.gen)
            /\ UNCHANGED <<results, loading, err, sCommit>>
       ELSE /\ results' = data
            /\ loading' = FALSE
            /\ sCommit' = r.gen
            /\ UNCHANGED <<err, sDropped>>
  /\ UNCHANGED <<query, sGen>>

\* await searchShows(query) rejected with an Error carrying message m
SearchReject(r, m) ==
  /\ route = "/search"
  /\ r \in sRuns
  /\ sRuns' = sRuns \ {r}
  /\ IF SearchIsStale(r)
       THEN /\ sDropped' = (sDropped \/ sCommit > r.gen)
            /\ UNCHANGED <<results, loading, err, sCommit>>
       ELSE /\ err' = MsgOr(m, "Failed to search shows")
            /\ results' = {}
            /\ loading' = FALSE
            /\ sCommit' = r.gen
            /\ UNCHANGED sDropped
  /\ UNCHANGED <<query, sGen>>

searchVars == <<query, results, loading, err, sRuns, sGen, sCommit, sDropped>>

(***************************************************************************)
(* ShowDetails loadShow effect.                                            *)
(***************************************************************************)
\* !idStr || Number.isNaN(id) || id <= 0
InvalidId(id) == id <= 0

\* return () => { cancelled = true }
DetailsCleanup == {[r EXCEPT !.cancelled = TRUE] : r \in dRuns}

\* if (cancelled) return;
DetailsIsStale(r) == r.cancelled

\* the body of the effect for route parameter id, after the cleanup
DetailsEffect(id, g) ==
  IF InvalidId(id)
    THEN /\ dErr' = "Invalid show id."
         /\ dLoading' = FALSE
         /\ dCommit' = g
         /\ dRuns' = DetailsCleanup
    ELSE /\ dLoading' = TRUE
         /\ dErr' = Null
         /\ UNCHANGED dCommit
         /\ dRuns' = DetailsCleanup \cup {[gen |-> g, id |-> id, cancelled |-> FALSE]}

DetailsInit ==
  /\ dId \in 0..MaxShow
  /\ dShow = 0
  /\ dGen = 1
  /\ dDropped = FALSE
  /\ IF InvalidId(dId)
       THEN dErr = "Invalid show id." /\ dLoading = FALSE /\ dRuns = {} /\ dCommit = 1
       ELSE dErr = Null /\ dLoading = TRUE /\ dCommit = 0
            /\ dRuns = {[gen |-> 1, id |-> dId, cancelled |-> FALSE]}

\* the route parameter changes: cleanup, then the effect runs again
DetailsNavigate(id) ==
  /\ route = "/show/:tmdb_id"
  /\ id # dId
  /\ dGen < MaxLoads
  /\ dId' = id
  /\ dGen' = dGen + 1
  /\ DetailsEffect(id, dGen + 1)
  /\ UNCHANGED <<dShow, dDropped>>

\* fetch(apiUrl(`/shows/${id}`)) answered 2xx with the show's JSON
DetailsResolve(r) ==
  /\ route = "/show/:tmdb_id"
  /\ r \in dRuns
  /\ dRuns' = dRuns \ {r}
  /\ IF DetailsIsStale(r)
       THEN /\ dDropped' = (dDropped \/ dCommit > r.gen)
            /\ UNCHANGED <<dShow, dLoading, dErr, dCommit>>
       ELSE /\ dShow' = r.id
            /\ dLoading' = FALSE
            /\ dCommit' = r.gen
            /\ UNCHANGED <<dErr, dDropped>>
  /\ UNCHANGED <<dId, dGen>>

\* fetch() rejected, res.ok was false or res.json() threw: message m
DetailsReject(r, m) ==
  /\ route = "/show/:tmdb_id"
  /\ r \in dRuns
  /\ dRuns' = dRuns \ {r}
  /\ IF DetailsIsStale(r)
       THEN /\ dDropped' = (dDropped \/ dCommit > r.gen)
            /\ UNCHANGED <<dShow, dLoading, dErr, dCommit>>
       ELSE /\ dErr' = m
            /\ dLoading' = FALSE
            /\ dCommit' = r.gen
            /\ UNCHANGED <<dShow, dDropped>>
  /\ UNCHANGED <<dId, dGen>>

detailsVars == <<dId, dShow, dLoading, dErr, dRuns, dGen, dCommit, dDropped>>

(***************************************************************************)
(* RecsPage: loadFavorites, loadRecs and the effects that trigger them.    *)
(* The user is logged in (the page redirects to /login otherwise).         *)
(***************************************************************************)
MIN_FAVORITES == 3

\* the catalogue of the recommendations page: just enough shows to pass the gate
RecShows == 1..MIN_FAVORITES

\* the genre filters that can be selected (GenreChips); {} is "no filter"
GenreSets == {{}, {"Drama"}}

EmptyBag == [x \in RecShows |-> 0]
RECURSIVE BagSum(_, _)
BagSum(b, S) == IF S = {} THEN 0
                ELSE LET x == CHOOSE y \in S : TRUE IN b[x] + BagSum(b, S \ {x})
\* favorites.length
Length(b) == BagSum(b, RecShows)
\* favSet: the ids with at least one entry in favorites
FavSetOf(b) == {x \in RecShows : b[x] > 0}
\* a list without duplicates, as a bag
BagOf(S) == [x \in RecShows |-> IF x \in S THEN 1 ELSE 0]

\* the responses of GET /recs/v3: the items, some of them "ghost" items with
\* neither a title nor a poster
RecsPayloads == {[items |-> i, ghosts |-> g] : i \in SUBSET RecShows, g \in {{}, {1}}}
\* the filter of loadRecs: hasTitle || hasPoster
Cleaned(payload) == payload.items \ payload.ghosts

RecsInit ==
  /\ rItems = {}
  /\ rLoading = FALSE
  /\ rErr = Null
  /\ selectedGenres \in GenreSets
  /\ favorites = EmptyBag
  /\ favoritesLoaded = FALSE
  /\ hasEnoughFavorites = FALSE
  /\ rFavLoad = TRUE
  /\ rFavCalls = {}
  /\ rLoads = {}
  /\ rGen = 0
  /\ rCommit = 0

\* loadRecs() up to its await, called with the given render's closure
LoadRecsStart(he, genres) ==
  IF ~he
    THEN /\ rItems' = {}
         /\ UNCHANGED <<rLoading, rErr, rLoads, rGen>>
    ELSE /\ rGen < MaxLoads
         /\ rLoading' = TRUE
         /\ rErr' = Null
         /\ rGen' = rGen + 1
         /\ rLoads' = rLoads \cup {[gen |-> rGen + 1, genres |-> genres]}
         /\ UNCHANGED rItems

\* useEffect(..., [userId, hasEnoughFavorites, loadRecs]) after a render in
\* which hasEnoughFavorites became he and selectedGenres became genres
RecsEffect(he, genres) ==
  IF he = hasEnoughFavorites /\ genres = selectedGenres
    THEN UNCHANGED <<rItems, rLoading, rErr, rLoads, rGen>>
    ELSE LoadRecsStart(he, genres)

\* await listFavoriteShows(userId) resolved with list
FavLoadResolve(list) ==
  /\ route = "/recs"
  /\ rFavLoad
  /\ rFavLoad' = FALSE
  /\ favorites' = BagOf(list)
  /\ favoritesLoaded' = TRUE
  /\ hasEnoughFavorites' = (Cardinality(list) >= MIN_FAVORITES)
  /\ RecsEffect(Cardinality(list) >= MIN_FAVORITES, selectedGenres)
  /\ UNCHANGED <<selectedGenres, rFavCalls, rCommit>>

\* await listFavoriteShows(userId) rejected
FavLoadReject ==
  /\ route = "/recs"
  /\ rFavLoad
  /\ rFavLoad' = FALSE
  /\ favoritesLoaded' = TRUE
  /\ hasEnoughFavorites' = FALSE
  /\ RecsEffect(FALSE, selectedGenres)
  /\ UNCHANGED <<favorites, selectedGenres, rFavCalls, rCommit>>

\* handleGenresChange(genres)
GenresChange(genres) ==
  /\ route = "/recs"
  /\ genres # selectedGenres
  /\ selectedGenres' = genres
  /\ RecsEffect(hasEnoughFavorites, genres)
  /\ UNCHANGED <<favorites, favoritesLoaded, hasEnoughFavorites, rFavLoad, rFavCalls, rCommit>>

\* handleRefresh()
Refresh ==
  /\ route = "/recs"
  /\ hasEnoughFavorites
  /\ LoadRecsStart(hasEnoughFavorites, selectedGenres)
  /\ UNCHANGED <<selectedGenres, favorites, favoritesLoaded, hasEnoughFavorites,
                 rFavLoad, rFavCalls, rCommit>>

\* the commit of loadRecs after the await: no check that the call is still
\* the latest one
RecsResolve(r, payload) ==
  /\ route = "/recs"
  /\ r \in rLoads
  /\ rLoads' = rLoads \ {r}
  /\ rItems' = Cleaned(payload)
  /\ rLoading' = FALSE
  /\ rCommit' = r.gen
  /\ UNCHANGED <<rErr, selectedGenres, favorites, favoritesLoaded, hasEnoughFavorites,
                 rFavLoad, rFavCalls, rGen>>

\* await getRecsV3 rejected with message m
RecsReject(r, m) ==
  /\ route = "/recs"
  /\ r \in rLoads
  /\ rLoads' = rLoads \ {r}
  /\ rErr' = MsgOr(m, "Failed to load recommendations")
  /\ rLoading' = FALSE
  /\ rCommit' = r.gen
  /\ UNCHANGED <<rItems, selectedGenres, favorites, favoritesLoaded, hasEnoughFavorites,
                 rFavLoad, rFavCalls, rGen>>

FreeSlot(calls, max) == CHOOSE n \in 1..max : \A c \in calls : c.slot # n

\* handleToggleFav(show) up to its await
RecsToggleFav(x) ==
  /\ route = "/recs"
  /\ Cardinality(rFavCalls) < MaxFavCalls
  /\ rFavCalls' = rFavCalls \cup
       {[slot |-> FreeSlot(rFavCalls, MaxFavCalls), tmdb |-> x, isCurrentlyFav |-> x \in FavSetOf(favorites)]}
  /\ UNCHANGED <<rItems, rLoading, rErr, selectedGenres, favorites, favoritesLoaded,
                 hasEnoughFavorites, rFavLoad, rLoads, rGen, rCommit>>

\* removeFavorite / addFavorite resolved: setFavorites(prev => ...) and, inside
\* the updater, setHasEnoughFavorites(next.length >= MIN_FAVORITES)
RecsToggleFavResolve(c) ==
  /\ route = "/recs"
  /\ c \in rFavCalls
  /\ rFavCalls' = rFavCalls \ {c}
  /\ LET next == IF c.isCurrentlyFav
                   THEN [favorites EXCEPT ![c.tmdb] = 0]
                   ELSE [favorites EXCEPT ![c.tmdb] = @ + 1]
     IN /\ favorites' = next
        /\ hasEnoughFavorites' = (Length(next) >= MIN_FAVORITES)
        /\ RecsEffect(Length(next) >= MIN_FAVORITES, selectedGenres)
  /\ UNCHANGED <<selectedGenres, favoritesLoaded, rFavLoad, rCommit>>

\* removeFavorite / addFavorite rejected: console.error only
RecsToggleFavReject(c) ==
  /\ route = "/recs"
  /\ c \in rFavCalls
  /\ rFavCalls' = rFavCalls \ {c}
  /\ UNCHANGED <<rItems, rLoading, rErr, selectedGenres, favorites, favoritesLoaded,
                 hasEnoughFavorites, rFavLoad, rLoads, rGen, rCommit>>

(***************************************************************************)
(* SearchPage: the favourites + ratings effect and toggleFav.              *)
(***************************************************************************)
\* the ratings a user gives
Ratings == {5, 9}
NoRatings == [x \in Shows |-> 0]

\* what Promise.all([listFavorites, listRatings]) resolves with: favs may hold
\* an entry without a usable id (0); ratings is one of two lists
RatingLists == {NoRatings, [NoRatings EXCEPT ![1] = 5]}
BulkPayloads == {[favs |-> f, ratings |-> r] : f \in SUBSET (0..MaxShow), r \in RatingLists}
\* the responses with which the favourite toggles, and the rating calls, are explored
FavPayloads == {p \in BulkPayloads : p.ratings = NoRatings}
RatePayloads == {p \in BulkPayloads : p.favs = {}}

\* if (Number.isFinite(t) && t > 0) favIds.add(t)
FavIds(favs) == {t \in favs : t > 0}

NoCall == [tmdb |-> 0, isFav |-> FALSE, overlapped |-> FALSE]
NoLast == [call |-> NoCall, ok |-> TRUE, promise |-> "resolved"]
MonIdle == [stage |-> 0, x |-> 0, v0 |-> FALSE]

\* return () => { alive = false }
LibCleanup == {[r EXCEPT !.alive = FALSE] : r \in libRuns}

\* the body of the effect for user id u, after the cleanup
LibEffect(u) ==
  IF u = 0
    THEN /\ favSet' = {}
         /\ ratingsMap' = NoRatings
         /\ libRuns' = LibCleanup
    ELSE /\ libRuns' = LibCleanup \cup {[gen |-> libGen + 1, alive |-> TRUE]}
         /\ UNCHANGED <<favSet, ratingsMap>>

FavInit ==
  /\ userId \in {0, 1}
  /\ favSet = {}
  /\ ratingsMap = NoRatings
  /\ libGen = 1
  /\ libRuns = IF userId = 0 THEN {} ELSE {[gen |-> 1, alive |-> TRUE]}
  /\ favCalls = <<>>
  /\ fLast = NoLast
  /\ alertMsg = Null
  /\ fMon = MonIdle

\* AuthProvider's user changes: the effect on [userId] runs again
SetUser(u) ==
  /\ route = "/search"
  /\ u # userId
  /\ libGen < MaxLoads
  /\ userId' = u
  /\ libGen' = libGen + 1
  /\ LibEffect(u)
  /\ fMon' = MonIdle
  /\ fLast' = NoLast
  /\ alertMsg' = Null
  /\ UNCHANGED favCalls

\* await Promise.all([...]) resolved
LibResolve(r, payload) ==
  /\ route = "/search"
  /\ r \in libRuns
  /\ libRuns' = libRuns \ {r}
  /\ IF ~r.alive
       THEN UNCHANGED <<favSet, ratingsMap, fMon>>
       ELSE /\ favSet' = FavIds(payload.favs)
            /\ ratingsMap' = payload.ratings
            /\ fMon' = MonIdle
  /\ fLast' = NoLast
  /\ alertMsg' = Null
  /\ UNCHANGED <<userId, libGen, favCalls>>

\* await Promise.all([...]) rejected: listFavorites or listRatings failed
LibReject(r) ==
  /\ route = "/search"
  /\ r \in libRuns
  /\ libRuns' = libRuns \ {r}
  /\ IF ~r.alive
       THEN UNCHANGED <<favSet, ratingsMap, fMon>>
       ELSE /\ favSet' = {}
            /\ ratingsMap' = NoRatings
            /\ fMon' = MonIdle
  /\ fLast' = NoLast
  /\ alertMsg' = Null
  /\ UNCHANGED <<userId, libGen, favCalls>>

\* an optimistic update that never removes
FavApply_AlwaysAdd(isFav, x, prev) == prev \cup {x}

\* optimistic UI: isFav ? next.delete(tmdb) : next.add(tmdb)
FavApply(isFav, x, prev) == IF isFav THEN prev \ {x} ELSE prev \cup {x}

\* a revert that flips the current state instead of restoring the captured one
FavRevert_Flip(isFav, x, prev) == IF x \in prev THEN prev \ {x} ELSE prev \cup {x}

\* revert on failure: isFav ? next.add(tmdb) : next.delete(tmdb)
FavRevert(isFav, x, prev) == IF isFav THEN prev \cup {x} ELSE prev \ {x}

RemoveAt(q, i) == SubSeq(q, 1, i - 1) \o SubSeq(q, i + 1, Len(q))

\* the monitor of two sequential toggles when toggleFav(x) is called
MonOnCall(x) ==
  IF favCalls = <<>> /\ fMon.stage = 2 /\ fMon.x = x
    THEN [fMon EXCEPT !.stage = 3]
    ELSE IF favCalls = <<>>
           THEN [stage |-> 1, x |-> x, v0 |-> x \in favSet]
           ELSE MonIdle

\* toggleFav(show) up to its await; x = tmdbFromShow(show), 0 for null
ToggleFav(x) ==
  /\ route = "/search"
  /\ IF userId = 0
       THEN /\ alertMsg' = "Please log in to use favourites."
            /\ UNCHANGED <<favSet, favCalls, fMon>>
       ELSE IF x = 0
         THEN /\ alertMsg' = Null
              /\ UNCHANGED <<favSet, favCalls, fMon>>
         ELSE /\ Len(favCalls) < MaxInFlight
              /\ favSet' = FavApply(x \in favSet, x, favSet)
              /\ favCalls' = Append(favCalls,
                   [tmdb |-> x, isFav |-> x \in favSet,
                    overlapped |-> \E i \in 1..Len(favCalls) : favCalls[i].tmdb = x])
              /\ fMon' = MonOnCall(x)
              /\ alertMsg' = Null
  /\ fLast' = NoLast
  /\ UNCHANGED <<userId, ratingsMap, libRuns, libGen>>

\* await removeFavorite / addFavorite resolved: nothing more is done
ToggleFavResolve(i) ==
  /\ route = "/search"
  /\ i \in 1..Len(favCalls)
  /\ favCalls' = RemoveAt(favCalls, i)
  /\ fLast' = [call |-> favCalls[i], ok |-> TRUE, promise |-> "resolved"]
  /\ fMon' = IF fMon.stage \in {1, 3} /\ Len(favCalls) = 1
               THEN [fMon EXCEPT !.stage = @ + 1] ELSE MonIdle
  /\ alertMsg' = Null
  /\ UNCHANGED <<userId, favSet, ratingsMap, libRuns, libGen>>

\* await removeFavorite / addFavorite rejected with message m: the catch block
\* reverts and alerts; the error is not thrown on
ToggleFavReject(i, m) ==
  /\ route = "/search"
  /\ i \in 1..Len(favCalls)
  /\ favCalls' = RemoveAt(favCalls, i)
  /\ favSet' = FavRevert(favCalls[i].isFav, favCalls[i].tmdb, favSet)
  /\ alertMsg' = MsgOr(m, "Failed to update favourite")
  /\ fLast' = [call |-> favCalls[i], ok |-> FALSE, promise |-> "resolved"]
  /\ fMon' = MonIdle
  /\ UNCHANGED <<userId, ratingsMap, libRuns, libGen>>

(***************************************************************************)
(* HeartButton.                                                            *)
(***************************************************************************)
HeartInit ==
  /\ hCan \in BOOLEAN
  /\ hProp \in BOOLEAN
  /\ hFav = hProp
  /\ hBusy = FALSE
  /\ hCall = {}
  /\ hMon = MonIdle

\* setFav(false) after removeFavorite, setFav(true) after addFavorite
HeartNext(fav) == ~fav

\* a toggle() that shows the new value before the server answered
HeartToggle_Optimistic ==
  /\ route = "HeartButton"
  /\ IF ~hCan \/ hBusy
       THEN UNCHANGED <<hBusy, hCall, hMon, hFav>>
       ELSE /\ hBusy' = TRUE
            /\ hCall' = hCall \cup {[fav |-> hFav]}
            /\ hFav' = HeartNext(hFav)
            /\ hMon' = IF hMon.stage = 2 THEN [hMon EXCEPT !.stage = 3]
                       ELSE [stage |-> 1, x |-> 0, v0 |-> hFav]
  /\ UNCHANGED <<hCan, hProp>>

\* toggle() up to its await
HeartToggle ==
  /\ route = "HeartButton"
  /\ IF ~hCan \/ hBusy
       THEN UNCHANGED <<hBusy, hCall, hMon>>
       ELSE /\ hBusy' = TRUE
            /\ hCall' = hCall \cup {[fav |-> hFav]}
            /\ hMon' = IF hMon.stage = 2 THEN [hMon EXCEPT !.stage = 3]
                       ELSE [stage |-> 1, x |-> 0, v0 |-> hFav]
  /\ UNCHANGED <<hCan, hFav, hProp>>

\* the request resolved
HeartResolve(c) ==
  /\ route = "HeartButton"
  /\ c \in hCall
  /\ hCall' = hCall \ {c}
  /\ hFav' = HeartNext(c.fav)
  /\ hBusy' = FALSE
  /\ hMon' = IF hMon.stage \in {1, 3} THEN [hMon EXCEPT !.stage = @ + 1] ELSE MonIdle
  /\ UNCHANGED <<hCan, hProp>>

\* the request rejected: console.error, then finally
HeartReject(c) ==
  /\ route = "HeartButton"
  /\ c \in hCall
  /\ hCall' = hCall \ {c}
  /\ hBusy' = FALSE
  /\ hMon' = MonIdle
  /\ UNCHANGED <<hCan, hFav, hProp>>

\* the parent renders the HeartButton again with another isFavorite, as after
\* a favourite toggle of the show that succeeded elsewhere; useState(!!isFavorite)
\* reads the prop on the first render only
HeartPropChange(v) ==
  /\ route = "HeartButton"
  /\ v # hProp
  /\ hProp' = v
  /\ UNCHANGED <<hCan, hFav, hBusy, hCall, hMon>>

(***************************************************************************)
(* Rating: rate of SearchPage and handleRate of RecsPage.                  *)
(***************************************************************************)
NoRate == [tmdb |-> 0, rating |-> 0, ok |-> TRUE]
RateMonIdle == [stage |-> 0, x |-> 0, b |-> 0]

\* what listRatings() resolves with on the recommendations page
RecsRatingLists == {<<>>, <<[tmdb_id |-> 1, rating |-> 5]>>}

\* prev.filter((r) => r.tmdb_id !== tmdbId)
RECURSIVE Others(_, _)
Others(prev, tmdb) ==
  IF prev = <<>> THEN <<>>
  ELSE IF Head(prev).tmdb_id = tmdb THEN Others(Tail(prev), tmdb)
       ELSE <<Head(prev)>> \o Others(Tail(prev), tmdb)

\* the ratingsMap memo of RecsPage: for (const r of ratings) map[id] = val, so
\* the last entry of a show wins; 0 if there is none
RECURSIVE RatingIn(_, _)
RatingIn(list, tmdb) ==
  IF list = <<>> THEN 0
  ELSE LET later == RatingIn(Tail(list), tmdb)
       IN  IF later # 0 THEN later
           ELSE IF Head(list).tmdb_id = tmdb THEN Head(list).rating ELSE 0

\* the rating of show x in the mounted view
RatingOf(x) == IF route = "/recs" THEN RatingIn(rRatings, x) ELSE ratingsMap[x]

\* setRatingsMap((m) => ({ ...m, [tmdb]: rating }))
RateApply(m, tmdb, rating) == [m EXCEPT ![tmdb] = rating]
\* a catch block that drops the show's rating
RateFailed_Clear(m, tmdb) == [m EXCEPT ![tmdb] = 0]
\* the catch block of rate: it writes no state
RateFailed(m, tmdb) == m

\* setRatings((prev) => [...others, { ...found, tmdb_id, rating }])
RecsRateApply(prev, tmdb, rating) ==
  Others(prev, tmdb) \o <<[tmdb_id |-> tmdb, rating |-> rating]>>
\* the catch block of handleRate: it writes no state
RecsRateFailed(prev, tmdb) == prev

RateInit ==
  /\ rateCalls = <<>>
  /\ rRatings = <<>>
  /\ rRatLoad = (route = "/recs")
  /\ rtLast = NoRate
  /\ rtMon = RateMonIdle

\* the monitor when a rating call for x with value v is issued
RateMonOnCall(x, v) ==
  IF rateCalls = <<>> THEN [stage |-> 1, x |-> x, b |-> 0]
  ELSE IF rtMon.stage = 1 /\ rtMon.x = x /\ Len(rateCalls) = 1
         THEN [stage |-> 2, x |-> x, b |-> v]
         ELSE RateMonIdle

\* the monitor when the call at position i settles
RateMonOnSettle(i, ok) ==
  IF rtMon.stage = 2 /\ i = 2 /\ ok /\ Len(rateCalls) = 2
    THEN [rtMon EXCEPT !.stage = 3]
  ELSE IF rtMon.stage = 3 /\ ~ok /\ Len(rateCalls) = 1
    THEN [rtMon EXCEPT !.stage = 4]
  ELSE RateMonIdle

\* rate(show, rating) of SearchPage up to its await
Rate(x, v) ==
  /\ route = "/search"
  /\ IF userId = 0
       THEN /\ alertMsg' = "Please log in to rate shows."
            /\ UNCHANGED <<rateCalls, rtMon>>
       ELSE IF x = 0
         THEN /\ alertMsg' = Null
              /\ UNCHANGED <<rateCalls, rtMon>>
         ELSE /\ Len(rateCalls) < MaxInFlight
              /\ rateCalls' = Append(rateCalls, [tmdb |-> x, rating |-> v])
              /\ rtMon' = RateMonOnCall(x, v)
              /\ alertMsg' = Null
  /\ rtLast' = NoRate
  /\ UNCHANGED <<userId, favSet, ratingsMap, libRuns, libGen, favCalls, fLast, fMon,
                 rRatings, rRatLoad>>

\* await upsertRating(...) resolved
RateResolve(i) ==
  /\ route = "/search"
  /\ i \in 1..Len(rateCalls)
  /\ ratingsMap' = RateApply(ratingsMap, rateCalls[i].tmdb, rateCalls[i].rating)
  /\ rateCalls' = RemoveAt(rateCalls, i)
  /\ rtLast' = [tmdb |-> rateCalls[i].tmdb, rating |-> rateCalls[i].rating, ok |-> TRUE]
  /\ rtMon' = RateMonOnSettle(i, TRUE)
  /\ alertMsg' = Null
  /\ UNCHANGED <<userId, favSet, libRuns, libGen, favCalls, fLast, fMon, rRatings, rRatLoad>>

\* await upsertRating(...) rejected with message m
RateReject(i, m) ==
  /\ route = "/search"
  /\ i \in 1..Len(rateCalls)
  /\ ratingsMap' = RateFailed(ratingsMap, rateCalls[i].tmdb)
  /\ rateCalls' = RemoveAt(rateCalls, i)
  /\ alertMsg' = MsgOr(m, "Failed to save rating")
  /\ rtLast' = [tmdb |-> rateCalls[i].tmdb, rating |-> rateCalls[i].rating, ok |-> FALSE]
  /\ rtMon' = RateMonOnSettle(i, FALSE)
  /\ UNCHANGED <<userId, favSet, libRuns, libGen, favCalls, fLast, fMon, rRatings, rRatLoad>>

\* the favourites + ratings effect of SearchPage while rating calls are in flight
RateSetUser(u) ==
  /\ SetUser(u)
  /\ rtLast' = NoRate
  /\ rtMon' = RateMonIdle
  /\ UNCHANGED <<rateCalls, rRatings, rRatLoad>>

RateLibResolve(r, payload) ==
  /\ LibResolve(r, payload)
  /\ rtLast' = NoRate
  /\ rtMon' = IF r.alive THEN RateMonIdle ELSE rtMon
  /\ UNCHANGED <<rateCalls, rRatings, rRatLoad>>

RateLibReject(r) ==
  /\ LibReject(r)
  /\ rtLast' = NoRate
  /\ rtMon' = IF r.alive THEN RateMonIdle ELSE rtMon
  /\ UNCHANGED <<rateCalls, rRatings, rRatLoad>>

\* loadRatings() of RecsPage: await listRatings(userId) resolved
RecsRatingsResolve(list) ==
  /\ route = "/recs"
  /\ rRatLoad
  /\ rRatLoad' = FALSE
  /\ rRatings' = list
  /\ rtLast' = NoRate
  /\ rtMon' = RateMonIdle
  /\ UNCHANGED rateCalls

\* loadRatings() of RecsPage: await listRatings(userId) rejected
RecsRatingsReject ==
  /\ route = "/recs"
  /\ rRatLoad
  /\ rRatLoad' = FALSE
  /\ rtLast' = NoRate
  /\ UNCHANGED <<rRatings, rateCalls, rtMon>>

\* handleRate(show, rating) of RecsPage up to its await
HandleRate(x, v) ==
  /\ route = "/recs"
  /\ IF x = 0
       THEN UNCHANGED <<rateCalls, rtMon>>
       ELSE /\ Len(rateCalls) < MaxInFlight
            /\ rateCalls' = Append(rateCalls, [tmdb |-> x, rating |-> v])
            /\ rtMon' = RateMonOnCall(x, v)
  /\ rtLast' = NoRate
  /\ UNCHANGED <<rRatings, rRatLoad>>

\* await upsertRating(...) resolved
HandleRateResolve(i) ==
  /\ route = "/recs"
  /\ i \in 1..Len(rateCalls)
  /\ rRatings' = RecsRateApply(rRatings, rateCalls[i].tmdb, rateCalls[i].rating)
  /\ rateCalls' = RemoveAt(rateCalls, i)
  /\ rtLast' = [tmdb |-> rateCalls[i].tmdb, rating |-> rateCalls[i].rating, ok |-> TRUE]
  /\ rtMon' = RateMonOnSettle(i, TRUE)
  /\ UNCHANGED rRatLoad

\* await upsertRating(...) rejected
HandleRateReject(i) ==
  /\ route = "/recs"
  /\ i \in 1..Len(rateCalls)
  /\ rRatings' = RecsRateFailed(rRatings, rateCalls[i].tmdb)
  /\ rateCalls' = RemoveAt(rateCalls, i)
  /\ rtLast' = [tmdb |-> rateCalls[i].tmdb, rating |-> rateCalls[i].rating, ok |-> FALSE]
  /\ rtMon' = RateMonOnSettle(i, FALSE)
  /\ UNCHANGED rRatLoad

(***************************************************************************)
(* Hide: hide of SearchPage, handleHide of RecsPage and of DiscoverPage.   *)
(***************************************************************************)
NoHide == [tmdb |-> 0, ok |-> TRUE]

\* tryAdd(title, arr): a section is added when its array is not empty
TryAdd(title, arr) == IF arr = {} THEN <<>> ELSE <<[title |-> title, items |-> arr]>>

\* the sections built from a response of getDiscover()
NewSections(featured, trending) ==
  TryAdd("Top Featured", featured) \o TryAdd("New & Trending", trending)

\* prev.map((section) => ({ ...section, items: section.items.filter(...) }))
WithoutShow(prev, tmdb) ==
  [i \in 1..Len(prev) |-> [prev[i] EXCEPT !.items = @ \ {tmdb}]]

\* the shows some section of the discover page displays
SectionShows(secs) == UNION {secs[i].items : i \in 1..Len(secs)}

\* the shows the mounted view displays
ViewShows ==
  IF route = "/search" THEN results
  ELSE IF route = "/recs" THEN rItems
  ELSE SectionShows(sections)

HideInit ==
  /\ sections = <<>>
  /\ hideCalls = <<>>
  /\ hdLast = NoHide

\* hide(show) of SearchPage up to its await; without a user the finally block
\* runs at once
SearchHide(x) ==
  /\ route = "/search"
  /\ x \in results
  /\ IF userId = 0
       THEN /\ results' = results \ {x}
            /\ UNCHANGED hideCalls
       ELSE /\ Len(hideCalls) < MaxInFlight
            /\ hideCalls' = Append(hideCalls, [tmdb |-> x])
            /\ UNCHANGED results
  /\ hdLast' = NoHide
  /\ UNCHANGED <<query, loading, err, sRuns, sGen, sCommit, sDropped, sections>>

\* await markNotInterested(...) resolved, then the finally block
SearchHideResolve(i) ==
  /\ route = "/search"
  /\ i \in 1..Len(hideCalls)
  /\ results' = results \ {hideCalls[i].tmdb}
  /\ hideCalls' = RemoveAt(hideCalls, i)
  /\ hdLast' = [tmdb |-> hideCalls[i].tmdb, ok |-> TRUE]
  /\ UNCHANGED <<query, loading, err, sRuns, sGen, sCommit, sDropped, sections>>

\* await markNotInterested(...) rejected: the finally block runs, the error
\* leaves hide()
SearchHideReject(i) ==
  /\ route = "/search"
  /\ i \in 1..Len(hideCalls)
  /\ results' = results \ {hideCalls[i].tmdb}
  /\ hideCalls' = RemoveAt(hideCalls, i)
  /\ hdLast' = [tmdb |-> hideCalls[i].tmdb, ok |-> FALSE]
  /\ UNCHANGED <<query, loading, err, sRuns, sGen, sCommit, sDropped, sections>>

\* handleHide(show) of RecsPage up to its await
RecsHide(x) ==
  /\ route = "/recs"
  /\ x \in rItems
  /\ userId # 0
  /\ Len(hideCalls) < MaxInFlight
  /\ rItems' = rItems \ {x}
  /\ hideCalls' = Append(hideCalls, [tmdb |-> x])
  /\ hdLast' = NoHide
  /\ UNCHANGED <<rLoading, rErr, selectedGenres, favorites, favoritesLoaded,
                 hasEnoughFavorites, rFavLoad, rFavCalls, rLoads, rGen, rCommit, sections>>

\* await markNotInterested(...) resolved
RecsHideResolve(i) ==
  /\ route = "/recs"
  /\ i \in 1..Len(hideCalls)
  /\ hideCalls' = RemoveAt(hideCalls, i)
  /\ hdLast' = [tmdb |-> hideCalls[i].tmdb, ok |-> TRUE]
  /\ UNCHANGED <<recsVars, sections>>

\* await markNotInterested(...) rejected: console.error only
RecsHideReject(i) ==
  /\ route = "/recs"
  /\ i \in 1..Len(hideCalls)
  /\ hideCalls' = RemoveAt(hideCalls, i)
  /\ hdLast' = [tmdb |-> hideCalls[i].tmdb, ok |-> FALSE]
  /\ UNCHANGED <<recsVars, sections>>

\* handleHide(show) of DiscoverPage up to its await
DiscoverHide(x) ==
  /\ route = "/discover"
  /\ x \in SectionShows(sections)
  /\ IF userId = 0
       THEN UNCHANGED <<sections, hideCalls>>
       ELSE /\ Len(hideCalls) < MaxInFlight
            /\ sections' = WithoutShow(sections, x)
            /\ hideCalls' = Append(hideCalls, [tmdb |-> x])
  /\ hdLast' = NoHide

\* await markNotInterested(...) resolved
DiscoverHideResolve(i) ==
  /\ route = "/discover"
  /\ i \in 1..Len(hideCalls)
  /\ hideCalls' = RemoveAt(hideCalls, i)
  /\ hdLast' = [tmdb |-> hideCalls[i].tmdb, ok |-> TRUE]
  /\ UNCHANGED sections

\* await markNotInterested(...) rejected: console.error only
DiscoverHideReject(i) ==
  /\ route = "/discover"
  /\ i \in 1..Len(hideCalls)
  /\ hideCalls' = RemoveAt(hideCalls, i)
  /\ hdLast' = [tmdb |-> hideCalls[i].tmdb, ok |-> FALSE]
  /\ UNCHANGED sections

(***************************************************************************)
(* Session: AuthProvider, SignOutButton, and the token helpers, http,      *)
(* login, register and me of the api module.                               *)
(***************************************************************************)
Tokens == 1..MaxTok

\* the api modules found in the repository: 1 and 2 in api.ts, 3 in
\* ui/ToastProvider.tsx
ApiVariants == {1, 2, 3}

\* the statuses with which the server answers
ErrStatus == {401, 403, 500}

NoResp == [kind |-> "none", status |-> 0]

\* http: if (res.status === 401) clearToken()  -- only in the first module
HttpTokenAfter(variant, status, tok) ==
  IF variant = 1 /\ status = 401 THEN 0 ELSE tok

\* the request the last step sent: the token stored when the api function was
\* called and the Authorization header the request carries (0: none)
NoSent == [kind |-> "none", tok |-> 0, stored |-> 0]

\* the Authorization header http() builds when stored is the token getToken()
\* returns: Bearer stored, none for the paths of shouldSkipAuth
Bearer(kind, stored) == IF kind \in {"login", "register"} THEN 0 ELSE stored

AuthInit ==
  /\ apiVariant \in ApiVariants
  /\ token \in 0..MaxTok
  /\ user = 0
  /\ aLoading = TRUE
  /\ authReqs = <<[kind |-> "restore", tok |-> Bearer("restore", token)]>>
  /\ userVia = 0
  /\ aLast = NoResp
  /\ aSent = [kind |-> "restore", tok |-> Bearer("restore", token), stored |-> token]

\* the restore effect: await apiMe() resolved
RestoreResolve(i) ==
  /\ i \in 1..Len(authReqs)
  /\ authReqs[i].kind = "restore"
  /\ authReqs[i].tok # 0
  /\ user' = 1
  /\ userVia' = authReqs[i].tok
  /\ aLoading' = FALSE
  /\ authReqs' = RemoveAt(authReqs, i)
  /\ aLast' = [kind |-> "restore", status |-> 200]
  /\ aSent' = NoSent
  /\ UNCHANGED <<apiVariant, token>>

\* a catch block that only resets the user
RestoreReject_KeepToken(i, status) ==
  /\ i \in 1..Len(authReqs)
  /\ authReqs[i].kind = "restore"
  /\ user' = 0
  /\ userVia' = 0
  /\ aLoading' = FALSE
  /\ authReqs' = RemoveAt(authReqs, i)
  /\ aLast' = [kind |-> "restore", status |-> status]
  /\ aSent' = NoSent
  /\ UNCHANGED <<apiVariant, token>>

\* the restore effect: await apiMe() rejected; the catch and finally blocks
RestoreReject(i, status) ==
  /\ i \in 1..Len(authReqs)
  /\ authReqs[i].kind = "restore"
  /\ token' = 0
  /\ user' = 0
  /\ userVia' = 0
  /\ aLoading' = FALSE
  /\ authReqs' = RemoveAt(authReqs, i)
  /\ aLast' = [kind |-> "restore", status |-> status]
  /\ aSent' = NoSent
  /\ UNCHANGED apiVariant

\* a login / register that neither clears the stored token nor skips the header
Login_StaleHeader(kind) ==
  /\ kind \in {"login", "register"}
  /\ Len(authReqs) < MaxInFlight
  /\ authReqs' = Append(authReqs, [kind |-> kind, tok |-> token])
  /\ aLast' = NoResp
  /\ aSent' = [kind |-> kind, tok |-> token, stored |-> token]
  /\ UNCHANGED <<apiVariant, token, user, aLoading, userVia>>

\* AuthProvider login / register up to the await of apiLogin / apiRegister:
\* the api function clears the token, then sends the credentials
Login(kind) ==
  /\ kind \in {"login", "register"}
  /\ Len(authReqs) < MaxInFlight
  /\ token' = 0
  /\ authReqs' = Append(authReqs, [kind |-> kind, tok |-> Bearer(kind, 0)])
  /\ aLast' = NoResp
  /\ aSent' = [kind |-> kind, tok |-> Bearer(kind, 0), stored |-> token]
  /\ UNCHANGED <<apiVariant, user, aLoading, userVia>>

\* the credential exchange answered 200 with access_token t (0: without one);
\* setToken(tok.access_token), then apiMe() is sent
ExchangeResolve(i, t) ==
  /\ i \in 1..Len(authReqs)
  /\ authReqs[i].kind \in {"login", "register"}
  /\ IF t = 0
       THEN /\ authReqs' = RemoveAt(authReqs, i)
            /\ aSent' = NoSent
            /\ UNCHANGED token
       ELSE /\ token' = t
            /\ authReqs' = [authReqs EXCEPT ![i] = [kind |-> "me", tok |-> Bearer("me", t)]]
            /\ aSent' = [kind |-> "me", tok |-> Bearer("me", t), stored |-> t]
  /\ aLast' = [kind |-> authReqs[i].kind, status |-> 200]
  /\ UNCHANGED <<apiVariant, user, aLoading, userVia>>

\* the credential exchange was refused: http throws, login / register rethrow
ExchangeReject(i, status) ==
  /\ i \in 1..Len(authReqs)
  /\ authReqs[i].kind \in {"login", "register"}
  /\ token' = HttpTokenAfter(apiVariant, status, token)
  /\ authReqs' = RemoveAt(authReqs, i)
  /\ aLast' = [kind |-> authReqs[i].kind, status |-> status]
  /\ aSent' = NoSent
  /\ UNCHANGED <<apiVariant, user, aLoading, userVia>>

\* login / register: await apiMe() resolved; setUser(u)
MeResolve(i) ==
  /\ i \in 1..Len(authReqs)
  /\ authReqs[i].kind = "me"
  /\ user' = 1
  /\ userVia' = authReqs[i].tok
  /\ authReqs' = RemoveAt(authReqs, i)
  /\ aLast' = [kind |-> "me", status |-> 200]
  /\ aSent' = NoSent
  /\ UNCHANGED <<apiVariant, token, aLoading>>

\* login / register: await apiMe() rejected; the error leaves login / register
MeReject(i, status) ==
  /\ i \in 1..Len(authReqs)
  /\ authReqs[i].kind = "me"
  /\ token' = HttpTokenAfter(apiVariant, status, token)
  /\ authReqs' = RemoveAt(authReqs, i)
  /\ aLast' = [kind |-> "me", status |-> status]
  /\ aSent' = NoSent
  /\ UNCHANGED <<apiVariant, user, aLoading, userVia>>

\* a logout that forgets setUser(null)
Logout_TokenOnly ==
  /\ token' = 0
  /\ aLast' = [kind |-> "logout", status |-> 0]
  /\ aSent' = NoSent
  /\ UNCHANGED <<apiVariant, user, userVia, aLoading, authReqs>>

\* AuthProvider logout
Logout ==
  /\ token' = 0
  /\ user' = 0
  /\ userVia' = 0
  /\ aLast' = [kind |-> "logout", status |-> 0]
  /\ aSent' = NoSent
  /\ UNCHANGED <<apiVariant, aLoading, authReqs>>

\* SignOutButton handleClick: clearToken(), then navigate("/login") or, with
\* reload, window.location.assign("/login"), which constructs the app anew
SignOutClick(reload) ==
  /\ token' = 0
  /\ IF reload
       THEN /\ user' = 0
            /\ userVia' = 0
            /\ aLoading' = TRUE
            /\ authReqs' = <<[kind |-> "restore", tok |-> Bearer("restore", 0)]>>
            /\ aSent' = [kind |-> "restore", tok |-> Bearer("restore", 0), stored |-> 0]
       ELSE /\ aSent' = NoSent
            /\ UNCHANGED <<user, userVia, aLoading, authReqs>>
  /\ aLast' = NoResp
  /\ UNCHANGED apiVariant

\* a page calls an api function: http() up to its await of fetch()
HttpRequest ==
  /\ Len(authReqs) < MaxInFlight
  /\ authReqs' = Append(authReqs, [kind |-> "http", tok |-> Bearer("http", token)])
  /\ aLast' = NoResp
  /\ aSent' = [kind |-> "http", tok |-> Bearer("http", token), stored |-> token]
  /\ UNCHANGED <<apiVariant, token, user, aLoading, userVia>>

\* http() after its await of fetch()
HttpResponse(i, status) ==
  /\ i \in 1..Len(authReqs)
  /\ authReqs[i].kind = "http"
  /\ token' = HttpTokenAfter(apiVariant, status, token)
  /\ authReqs' = RemoveAt(authReqs, i)
  /\ aLast' = [kind |-> "http", status |-> status]
  /\ aSent' = NoSent
  /\ UNCHANGED <<apiVariant, user, aLoading, userVia>>

\* a page or component calls fetch(apiUrl(...)) itself: fetchWrapped of
\* WrappedPage, loadExplain of ShowDetails; no Authorization header is set
RawFetch ==
  /\ Len(authReqs) < MaxInFlight
  /\ authReqs' = Append(authReqs, [kind |-> "fetch", tok |-> 0])
  /\ aLast' = NoResp
  /\ aSent' = [kind |-> "fetch", tok |-> 0, stored |-> token]
  /\ UNCHANGED <<apiVariant, token, user, aLoading, userVia>>

\* the await of that fetch settled: the page handles the answer itself
RawFetchSettle(i) ==
  /\ i \in 1..Len(authReqs)
  /\ authReqs[i].kind = "fetch"
  /\ authReqs' = RemoveAt(authReqs, i)
  /\ aLast' = NoResp
  /\ aSent' = NoSent
  /\ UNCHANGED <<apiVariant, token, user, aLoading, userVia>>

\* the session while another specification runs: restored without a token
AuthIdle ==
  /\ apiVariant = 1
  /\ token = 0
  /\ user = 0
  /\ aLoading = FALSE
  /\ authReqs = <<>>
  /\ userVia = 0
  /\ aLast = NoResp
  /\ aSent = NoSent

(***************************************************************************)
(* The api module: buildUrl, http and the mutating helpers.  A path or URL *)
(* is a sequence of tokens; a token is a "/" or a run of characters        *)
(* without one, so that startsWith("/api/") and slice(4) are a comparison  *)
(* and a removal of whole tokens.                                          *)
(***************************************************************************)
MaxPath == 4

PathTokens == {"/", "api", "library"}

ApiPrefix == <<"/", "api">>

RemoteBase == <<"https:", "/", "/", "whatnext-api.onrender.com", "/", "api">>

AbsPath == <<"https:", "/", "/", "img.example", "/", "api", "/", "library">>

\* the paths of at most MaxPath tokens, two names always separated by a "/",
\* and one absolute URL
Paths ==
  {p \in UNION {[1..n -> PathTokens] : n \in 0..MaxPath} :
     \A i \in 1..(Len(p) - 1) : p[i] = "/" \/ p[i + 1] = "/"} \cup {AbsPath}

StartsWith(s, pre) == Len(s) >= Len(pre) /\ SubSeq(s, 1, Len(pre)) = pre

Slice(s, n) == SubSeq(s, n + 1, Len(s))

IsAbsolute(path) ==
  \/ StartsWith(path, <<"http:", "/", "/">>)
  \/ StartsWith(path, <<"https:", "/", "/">>)

\* BASE.replace(/\/+$/, "")
RECURSIVE BaseNorm(_)
BaseNorm(base) ==
  IF base # <<>> /\ base[Len(base)] = "/"
    THEN BaseNorm(SubSeq(base, 1, Len(base) - 1))
    ELSE base

\* BASE: variant 1 fixes "/api"; variants 2 and 3 read VITE_API_BASE and
\* default to "/api" (development) or to the remote API
Bases(variant) ==
  IF variant = 1 THEN {ApiPrefix}
  ELSE {ApiPrefix, RemoteBase, ApiPrefix \o <<"/">>}

\* buildUrl without the removal of a leading "/api"
BuildUrl_NoStrip(variant, base, path) ==
  IF IsAbsolute(path) THEN path
  ELSE (IF variant = 1 THEN base ELSE BaseNorm(base))
         \o (IF StartsWith(path, <<"/">>) THEN <<>> ELSE <<"/">>) \o path

BuildUrl(variant, base, path) ==
  LET hasPrefix == StartsWith(path, ApiPrefix \o <<"/">>)
      sep(p) == IF StartsWith(p, <<"/">>) THEN <<>> ELSE <<"/">>
  IN  IF IsAbsolute(path) THEN path
      ELSE IF variant = 1
        THEN IF path = ApiPrefix \/ hasPrefix THEN path
             ELSE base \o sep(path) \o path
      ELSE IF variant = 2
        THEN LET p == IF path = ApiPrefix THEN <<>>
                      ELSE IF hasPrefix THEN Slice(path, 2) ELSE path
             IN  BaseNorm(base) \o sep(p) \o p
      ELSE IF path = ApiPrefix THEN BaseNorm(base)
      ELSE IF hasPrefix THEN BaseNorm(base) \o Slice(path, 2)
      ELSE BaseNorm(base) \o sep(path) \o path

\* the methods of the direct calls of http(); buildUrl does not read the method
Methods == {"GET", "POST"}

Helpers ==
  {"addFavorite", "removeFavorite", "upsertRating", "markNotInterested", "removeNotInterested"}

HelperMethod(h) ==
  IF h \in {"removeFavorite", "removeNotInterested"} THEN "DELETE" ELSE "POST"

\* variant 3 only: the helper was called without a user id and awaits me() first
NeedsMe(variant, h, oneArg) == variant = 3 /\ oneArg /\ h # "upsertRating"

\* every helper path is "/library/..." or "/users/..."; what follows the
\* first segment plays no part in buildUrl
HelperPath == <<"/", "library">>

OkStatus == {200, 204}

\* the body of a non-success response: {detail: text}, {detail: [{msg: text}]},
\* {message: text}, a JSON object with neither, a body that is not JSON, no body
Bodies ==
  { [shape |-> "detailString", text |-> "Email already registered"],
    [shape |-> "detailArray", text |-> "field required"],
    [shape |-> "message", text |-> "boom"],
    [shape |-> "object", text |-> "{}"],
    [shape |-> "text", text |-> "Bad Gateway"],
    [shape |-> "none", text |-> ""] }

NoBody == [shape |-> "none", text |-> ""]

NoMessage == [text |-> "", status |-> 0]

\* `HTTP ${res.status}` in variant 1, `${res.status} ${res.statusText}` in 2 and 3
StatusMessage(variant, status) ==
  [text |-> IF variant = 1 THEN "HTTP" ELSE "statusText", status |-> status]

\* the message of the Error http() throws for a response that is not ok
ErrorMessage(variant, status, body) ==
  IF variant = 1
    THEN IF body.shape \in {"detailString", "detailArray"}
           THEN [text |-> body.text, status |-> 0]
           ELSE StatusMessage(variant, status)
    ELSE \* await res.json() parsed: detail.detail ?? detail.message ?? JSON.stringify(detail);
         \* new Error(array of objects) has the message "[object Object]"
         IF body.shape \in {"detailString", "message"} THEN [text |-> body.text, status |-> 0]
         ELSE IF body.shape = "detailArray" THEN [text |-> "[object Object]", status |-> 0]
         ELSE IF body.shape = "object" THEN [text |-> "{}", status |-> 0]
         \* res.json() threw after reading the body, so res.text() throws: detail = null
         ELSE StatusMessage(variant, status)

\* the call returned or threw: its path and URL are gone, what it sent stays
Returned(req) == [req EXCEPT !.path = <<>>, !.url = <<>>, !.stage = "done"]

NoReq ==
  [helper |-> "none", method |-> "GET", path |-> <<>>, url |-> <<>>,
   sent |-> 0, lookups |-> 0, stage |-> "idle"]

NoOut == [status |-> 0, body |-> NoBody, thrown |-> FALSE, message |-> NoMessage]

HttpIdle ==
  /\ xBase = ApiPrefix
  /\ xReq = NoReq
  /\ xOut = NoOut

HttpInit ==
  /\ xBase \in Bases(apiVariant)
  /\ xReq = NoReq
  /\ xOut = NoOut

\* http(path, {method}) up to its await of fetch(url, ...)
HttpSend(path, method) ==
  /\ route = "http"
  /\ xReq.stage \in {"idle", "done"}
  /\ xReq' = [helper |-> "http", method |-> method, path |-> path,
              url |-> BuildUrl(apiVariant, xBase, path),
              sent |-> 1, lookups |-> 0, stage |-> "pending"]
  /\ xOut' = NoOut
  /\ UNCHANGED <<xBase, authVars>>

\* a mutating helper is called; it awaits me() first when it has no user id
HelperCall(h, oneArg) ==
  /\ route = "http"
  /\ xReq.stage \in {"idle", "done"}
  /\ oneArg => apiVariant # 1
  /\ xReq' = [helper |-> h, method |-> HelperMethod(h), path |-> HelperPath,
              url |-> BuildUrl(apiVariant, xBase, HelperPath),
              sent |-> IF NeedsMe(apiVariant, h, oneArg) THEN 0 ELSE 1,
              lookups |-> IF NeedsMe(apiVariant, h, oneArg) THEN 1 ELSE 0,
              stage |-> IF NeedsMe(apiVariant, h, oneArg) THEN "lookup" ELSE "pending"]
  /\ xOut' = NoOut
  /\ UNCHANGED <<xBase, authVars>>

\* (await me()).id resolved: the helper sends its POST / DELETE
HelperMeResolve ==
  /\ xReq.stage = "lookup"
  /\ xReq' = [xReq EXCEPT !.sent = @ + 1, !.stage = "pending"]
  /\ UNCHANGED <<xBase, xOut, authVars>>

\* me() threw: the helper rethrows before it sent anything
HelperMeReject(status, body) ==
  /\ xReq.stage = "lookup"
  /\ xReq' = Returned(xReq)
  /\ xOut' = [status |-> status, body |-> body, thrown |-> TRUE,
              message |-> ErrorMessage(apiVariant, status, body)]
  /\ token' = HttpTokenAfter(apiVariant, status, token)
  /\ UNCHANGED <<xBase, apiVariant, user, aLoading, authReqs, userVia, aLast, aSent>>

\* the answer is re-sent once more when the server failed
HttpSettle_Resend(status, body) ==
  /\ xReq.stage = "pending"
  /\ IF status = 500 /\ xReq.sent < 2
       THEN /\ xReq' = [xReq EXCEPT !.sent = @ + 1]
            /\ UNCHANGED xOut
       ELSE /\ xReq' = Returned(xReq)
            /\ xOut' = [status |-> status, body |-> body, thrown |-> status \notin OkStatus,
                        message |-> NoMessage]
  /\ UNCHANGED <<xBase, authVars>>

\* await fetch() resolved with a response: http returns the payload or throws
HttpSettle(status, body) ==
  /\ xReq.stage = "pending"
  /\ status \in OkStatus => body = NoBody
  /\ xReq' = Returned(xReq)
  /\ xOut' = [status |-> status, body |-> body, thrown |-> status \notin OkStatus,
              message |-> IF status \in OkStatus THEN NoMessage
                          ELSE ErrorMessage(apiVariant, status, body)]
  /\ token' = HttpTokenAfter(apiVariant, status, token)
  /\ UNCHANGED <<xBase, apiVariant, user, aLoading, authReqs, userVia, aLast, aSent>>

(***************************************************************************)
(* The server's favourites of the user, as the library endpoints keep      *)
(* them: POST adds the show, DELETE removes it, a refused request changes  *)
(* nothing.  A request is processed when it is answered.                   *)
(***************************************************************************)
ServerApply(call, held) == IF call.isFav THEN held \ {call.tmdb} ELSE held \cup {call.tmdb}

SyncIdle ==
  /\ srvFav = {}
  /\ syOk = TRUE

\* toggleFav(show) of the search page
SyncToggleFav(x) ==
  /\ ToggleFav(x)
  /\ UNCHANGED <<srvFav, syOk>>

\* the server processed the request and answered 2xx
SyncToggleFavResolve(i) ==
  /\ ToggleFavResolve(i)
  /\ srvFav' = ServerApply(favCalls[i], srvFav)
  /\ UNCHANGED syOk

\* the server refused the request
SyncToggleFavReject(i, m) ==
  /\ ToggleFavReject(i, m)
  /\ syOk' = FALSE
  /\ UNCHANGED srvFav

(***************************************************************************)
(* ProtectedRoute: what it returns for the loading and user of useAuth().  *)
(***************************************************************************)
\* a guard that looks at the user before it looks at loading
ProtectedRoute_UserFirst(isLoading, u) ==
  IF u = 0 THEN "redirect" ELSE IF isLoading THEN "checking" ELSE "children"

ProtectedRoute(isLoading, u) ==
  IF isLoading THEN "checking" ELSE IF u = 0 THEN "redirect" ELSE "children"

\* the render that follows a state change of the AuthProvider
Render == guardView' = ProtectedRoute(aLoading', user')

Rendered == guardView = ProtectedRoute(aLoading, user)

(***************************************************************************)
(* RatingsPage of a logged-in user, after listRatings() has answered: the  *)
(* add-new form (canAdd, addNew) and the rows (Row.save, saveRow).         *)
(***************************************************************************)
\* the numbers the rating inputs can hold; min / max of the input element
\* bind the stepper only
RatingInputs == {10, 11}

NoPageOp == [op |-> "none", tmdb |-> 0, rating |-> 0, sent |-> FALSE, ok |-> TRUE]

Entry(t, v) == [tmdb_id |-> t, rating |-> v]

Row(list, t) == \E i \in 1..Len(list) : list[i].tmdb_id = t

\* the lists listRatings() answers with: one entry per show at most
LoadedRatings ==
  {l \in UNION {[1..n -> {Entry(t, 10) : t \in Shows}] : n \in 0..MaxShow} :
     \A i, j \in 1..Len(l) : l[i].tmdb_id = l[j].tmdb_id => i = j}

\* canAdd, with Number(newTmdb) = t and Number(newRating) = v
CanAdd(t, v) == t > 0 /\ v >= 0 /\ v <= 10

\* an add that keeps the entry the show already has
AddMerge_NoFilter(prev, t, v) == <<Entry(t, v)>> \o prev

\* addNew: setItems((prev) => [{...}, ...prev.filter((p) => p.tmdb_id !== tmdb_id)])
AddMerge(prev, t, v) == <<Entry(t, v)>> \o Others(prev, t)

\* saveRow: next[idx] = {...next[idx], ...merged} if findIndex found the show,
\* next.unshift(merged) otherwise
SaveMerge(prev, t, v) ==
  IF Row(prev, t)
    THEN LET idx == CHOOSE i \in 1..Len(prev) :
                      /\ prev[i].tmdb_id = t
                      /\ \A j \in 1..(i - 1) : prev[j].tmdb_id # t
         IN  [prev EXCEPT ![idx] = Entry(t, v)]
    ELSE <<Entry(t, v)>> \o prev

PageIdle ==
  /\ pItems = <<>>
  /\ pCalls = {}
  /\ pBusyAdd = FALSE
  /\ pBusyRows = {}
  /\ pLast = NoPageOp

PageInit ==
  /\ pItems \in LoadedRatings
  /\ pCalls = {}
  /\ pBusyAdd = FALSE
  /\ pBusyRows = {}
  /\ pLast = NoPageOp

\* a click on "Add rating" (disabled while busyAdd): addNew() up to its await
AddNew(t, v) ==
  /\ route = "/ratings"
  /\ ~pBusyAdd
  /\ IF ~CanAdd(t, v)
       THEN UNCHANGED <<pCalls, pBusyAdd>>
       ELSE /\ pBusyAdd' = TRUE
            /\ pCalls' = pCalls \cup {[kind |-> "add", tmdb |-> t, rating |-> v]}
  /\ pLast' = [op |-> "add", tmdb |-> t, rating |-> v, sent |-> CanAdd(t, v), ok |-> TRUE]
  /\ UNCHANGED <<pItems, pBusyRows>>

\* addNew: await upsertRating resolved
AddResolve(c) ==
  /\ c \in pCalls /\ c.kind = "add"
  /\ pCalls' = pCalls \ {c}
  /\ pItems' = AddMerge(pItems, c.tmdb, c.rating)
  /\ pBusyAdd' = FALSE
  /\ pLast' = [op |-> "added", tmdb |-> c.tmdb, rating |-> c.rating, sent |-> FALSE, ok |-> TRUE]
  /\ UNCHANGED pBusyRows

\* addNew: await upsertRating rejected; the catch block shows an alert, which
\* changes no state of the page, then finally
AddReject(c) ==
  /\ c \in pCalls /\ c.kind = "add"
  /\ pCalls' = pCalls \ {c}
  /\ pBusyAdd' = FALSE
  /\ pLast' = [op |-> "added", tmdb |-> c.tmdb, rating |-> c.rating, sent |-> FALSE, ok |-> FALSE]
  /\ UNCHANGED <<pItems, pBusyRows>>

\* Row.save() of the row of show t, whose draft holds rating v; edited: the
\* draft differs from the entry in title, seasons or notes.  saveRow up to
\* its await
SaveRow(t, v, edited) ==
  /\ route = "/ratings"
  /\ Row(pItems, t)
  /\ IF t \in pBusyRows \/ ~(edited \/ v # RatingIn(pItems, t))
       THEN /\ pLast' = [op |-> "save", tmdb |-> t, rating |-> v, sent |-> FALSE, ok |-> TRUE]
            /\ UNCHANGED <<pCalls, pBusyRows>>
       ELSE /\ pBusyRows' = pBusyRows \cup {t}
            /\ pCalls' = pCalls \cup {[kind |-> "save", tmdb |-> t, rating |-> v]}
            /\ pLast' = [op |-> "save", tmdb |-> t, rating |-> v, sent |-> TRUE, ok |-> TRUE]
  /\ UNCHANGED <<pItems, pBusyAdd>>

\* saveRow: await upsertRating resolved; then the finally block of Row.save
SaveResolve(c) ==
  /\ c \in pCalls /\ c.kind = "save"
  /\ pCalls' = pCalls \ {c}
  /\ pItems' = SaveMerge(pItems, c.tmdb, c.rating)
  /\ pBusyRows' = pBusyRows \ {c.tmdb}
  /\ pLast' = [op |-> "saved", tmdb |-> c.tmdb, rating |-> c.rating, sent |-> FALSE, ok |-> TRUE]
  /\ UNCHANGED pBusyAdd

\* saveRow: await upsertRating rejected; saveRow throws, Row.save runs finally
SaveReject(c) ==
  /\ c \in pCalls /\ c.kind = "save"
  /\ pCalls' = pCalls \ {c}
  /\ pBusyRows' = pBusyRows \ {c.tmdb}
  /\ pLast' = [op |-> "saved", tmdb |-> c.tmdb, rating |-> c.rating, sent |-> FALSE, ok |-> FALSE]
  /\ UNCHANGED <<pItems, pBusyAdd>>

(***************************************************************************)
(* SpecLoad: the two load effects; one of the two routes is mounted.       *)
(***************************************************************************)
InitLoad ==
  /\ route \in {"/search", "/show/:tmdb_id"}
  /\ SearchInit
  /\ DetailsInit
  /\ RecsInit
  /\ FavInit /\ userId = 0
  /\ HeartInit /\ ~hCan /\ ~hFav
  /\ RateInit
  /\ HideInit
  /\ AuthIdle
  /\ HttpIdle
  /\ SyncIdle
  /\ PageIdle
  /\ Rendered

NextLoad ==
  \/ \E q \in Queries : SetQuery(q) /\ UNCHANGED <<route, detailsVars, recsVars, favVars, heartVars, restVars>>
  \/ \E r \in sRuns, data \in SUBSET Shows :
       SearchResolve(r, data) /\ UNCHANGED <<route, detailsVars, recsVars, favVars, heartVars, restVars>>
  \/ \E r \in sRuns, m \in ErrMsgs :
       SearchReject(r, m) /\ UNCHANGED <<route, detailsVars, recsVars, favVars, heartVars, restVars>>
  \/ \E id \in 0..MaxShow : DetailsNavigate(id) /\ UNCHANGED <<route, searchVars, recsVars, favVars, heartVars, restVars>>
  \/ \E r \in dRuns : DetailsResolve(r) /\ UNCHANGED <<route, searchVars, recsVars, favVars, heartVars, restVars>>
  \/ \E r \in dRuns :
       DetailsReject(r, "Failed to load show (500)") /\ UNCHANGED <<route, searchVars, recsVars, favVars, heartVars, restVars>>

SpecLoad == InitLoad /\ [][NextLoad]_vars

(***************************************************************************)
(* SpecRecs: the recommendations page.                                     *)
(***************************************************************************)
InitRecs ==
  /\ route = "/recs"
  /\ SearchInit
  /\ DetailsInit /\ dId = 0
  /\ RecsInit
  /\ FavInit /\ userId = 0
  /\ HeartInit /\ ~hCan /\ ~hFav
  /\ RateInit
  /\ HideInit
  /\ AuthIdle
  /\ HttpIdle
  /\ SyncIdle
  /\ PageIdle
  /\ Rendered

NextRecs ==
  \/ \E list \in SUBSET RecShows : FavLoadResolve(list) /\ UNCHANGED <<route, loadVars, favVars, heartVars, restVars>>
  \/ FavLoadReject /\ UNCHANGED <<route, loadVars, favVars, heartVars, restVars>>
  \/ \E g \in GenreSets : GenresChange(g) /\ UNCHANGED <<route, loadVars, favVars, heartVars, restVars>>
  \/ Refresh /\ UNCHANGED <<route, loadVars, favVars, heartVars, restVars>>
  \/ \E r \in rLoads, payload \in RecsPayloads :
       RecsResolve(r, payload) /\ UNCHANGED <<route, loadVars, favVars, heartVars, restVars>>
  \/ \E r \in rLoads, m \in ErrMsgs : RecsReject(r, m) /\ UNCHANGED <<route, loadVars, favVars, heartVars, restVars>>
  \/ \E x \in RecShows : RecsToggleFav(x) /\ UNCHANGED <<route, loadVars, favVars, heartVars, restVars>>
  \/ \E c \in rFavCalls : RecsToggleFavResolve(c) /\ UNCHANGED <<route, loadVars, favVars, heartVars, restVars>>
  \/ \E c \in rFavCalls : RecsToggleFavReject(c) /\ UNCHANGED <<route, loadVars, favVars, heartVars, restVars>>

SpecRecs == InitRecs /\ [][NextRecs]_vars

(***************************************************************************)
(* SpecFav: favourite toggles on the search page and in a HeartButton.     *)
(***************************************************************************)
InitFav ==
  /\ route \in {"/search", "HeartButton"}
  /\ SearchInit
  /\ DetailsInit /\ dId = 0
  /\ RecsInit /\ selectedGenres = {}
  /\ FavInit /\ (route # "/search" => userId = 0)
  /\ HeartInit /\ (route # "HeartButton" => ~hCan /\ ~hFav)
  /\ RateInit
  /\ HideInit
  /\ AuthIdle
  /\ HttpIdle
  /\ SyncIdle
  /\ PageIdle
  /\ Rendered

NextFav ==
  \/ \E u \in {0, 1} : SetUser(u) /\ UNCHANGED <<route, loadVars, recsVars, heartVars, restVars>>
  \/ \E r \in libRuns, payload \in FavPayloads :
       LibResolve(r, payload) /\ UNCHANGED <<route, loadVars, recsVars, heartVars, restVars>>
  \/ \E r \in libRuns : LibReject(r) /\ UNCHANGED <<route, loadVars, recsVars, heartVars, restVars>>
  \/ \E x \in 0..MaxShow : ToggleFav(x) /\ UNCHANGED <<route, loadVars, recsVars, heartVars, restVars>>
  \/ \E i \in 1..Len(favCalls) :
       ToggleFavResolve(i) /\ UNCHANGED <<route, loadVars, recsVars, heartVars, restVars>>
  \/ \E i \in 1..Len(favCalls), m \in ErrMsgs :
       ToggleFavReject(i, m) /\ UNCHANGED <<route, loadVars, recsVars, heartVars, restVars>>
  \/ HeartToggle /\ UNCHANGED <<route, loadVars, recsVars, favVars, restVars>>
  \/ \E c \in hCall : HeartResolve(c) /\ UNCHANGED <<route, loadVars, recsVars, favVars, restVars>>
  \/ \E c \in hCall : HeartReject(c) /\ UNCHANGED <<route, loadVars, recsVars, favVars, restVars>>
  \/ \E v \in BOOLEAN : HeartPropChange(v) /\ UNCHANGED <<route, loadVars, recsVars, favVars, restVars>>

SpecFav == InitFav /\ [][NextFav]_vars

(***************************************************************************)
(* SpecRate: rating calls on the search page and the recommendations page. *)
(***************************************************************************)
InitRate ==
  /\ route \in {"/search", "/recs"}
  /\ SearchInit
  /\ DetailsInit /\ dId = 0
  /\ RecsInit /\ selectedGenres = {}
  /\ FavInit /\ (route # "/search" => userId = 0)
  /\ HeartInit /\ ~hCan /\ ~hFav
  /\ RateInit
  /\ HideInit
  /\ AuthIdle
  /\ HttpIdle
  /\ SyncIdle
  /\ PageIdle
  /\ Rendered

NextRate ==
  \/ \E u \in {0, 1} : RateSetUser(u) /\ UNCHANGED <<route, loadVars, recsVars, heartVars, hideVars, authVars, httpVars, syncVars, pageVars, guardVars>>
  \/ \E r \in libRuns, payload \in RatePayloads :
       RateLibResolve(r, payload) /\ UNCHANGED <<route, loadVars, recsVars, heartVars, hideVars, authVars, httpVars, syncVars, pageVars, guardVars>>
  \/ \E r \in libRuns : RateLibReject(r) /\ UNCHANGED <<route, loadVars, recsVars, heartVars, hideVars, authVars, httpVars, syncVars, pageVars, guardVars>>
  \/ \E x \in 0..MaxShow, v \in Ratings :
       Rate(x, v) /\ UNCHANGED <<route, loadVars, recsVars, heartVars, hideVars, authVars, httpVars, syncVars, pageVars, guardVars>>
  \/ \E i \in 1..Len(rateCalls) :
       RateResolve(i) /\ UNCHANGED <<route, loadVars, recsVars, heartVars, hideVars, authVars, httpVars, syncVars, pageVars, guardVars>>
  \/ \E i \in 1..Len(rateCalls), m \in ErrMsgs :
       RateReject(i, m) /\ UNCHANGED <<route, loadVars, recsVars, heartVars, hideVars, authVars, httpVars, syncVars, pageVars, guardVars>>
  \/ \E list \in RecsRatingLists :
       RecsRatingsResolve(list) /\ UNCHANGED <<route, loadVars, recsVars, favVars, heartVars, hideVars, authVars, httpVars, syncVars, pageVars, guardVars>>
  \/ RecsRatingsReject /\ UNCHANGED <<route, loadVars, recsVars, favVars, heartVars, hideVars, authVars, httpVars, syncVars, pageVars, guardVars>>
  \/ \E x \in 0..MaxShow, v \in Ratings :
       HandleRate(x, v) /\ UNCHANGED <<route, loadVars, recsVars, favVars, heartVars, hideVars, authVars, httpVars, syncVars, pageVars, guardVars>>
  \/ \E i \in 1..Len(rateCalls) :
       HandleRateResolve(i) /\ UNCHANGED <<route, loadVars, recsVars, favVars, heartVars, hideVars, authVars, httpVars, syncVars, pageVars, guardVars>>
  \/ \E i \in 1..Len(rateCalls) :
       HandleRateReject(i) /\ UNCHANGED <<route, loadVars, recsVars, favVars, heartVars, hideVars, authVars, httpVars, syncVars, pageVars, guardVars>>

SpecRate == InitRate /\ [][NextRate]_vars

(***************************************************************************)
(* SpecHide: hiding a show from a loaded search, recommendations or        *)
(* discover view.  The views start as their loads left them.               *)
(***************************************************************************)
\* SearchPage after its first search has answered
SearchLoaded ==
  /\ query = "Breaking Bad"
  /\ results \in SUBSET Shows
  /\ loading = FALSE
  /\ err = Null
  /\ sGen = 1
  /\ sRuns = {}
  /\ sCommit = 1
  /\ sDropped = FALSE

\* RecsPage after loadFavorites() and the first loadRecs() have answered
RecsLoaded ==
  /\ rItems \in SUBSET RecShows
  /\ rLoading = FALSE
  /\ rErr = Null
  /\ selectedGenres = {}
  /\ favorites = BagOf(RecShows)
  /\ favoritesLoaded = TRUE
  /\ hasEnoughFavorites = TRUE
  /\ rFavLoad = FALSE
  /\ rFavCalls = {}
  /\ rLoads = {}
  /\ rGen = 1
  /\ rCommit = 1

\* DiscoverPage after getDiscover() has answered
DiscoverLoaded ==
  \E featured \in SUBSET Shows, trending \in SUBSET Shows :
    sections = NewSections(featured, trending)

\* the favourites + ratings effect of SearchPage has answered, or had no user
LibLoaded ==
  /\ userId \in {0, 1}
  /\ favSet = {}
  /\ ratingsMap = NoRatings
  /\ libGen = 1
  /\ libRuns = {}
  /\ favCalls = <<>>
  /\ fLast = NoLast
  /\ alertMsg = Null
  /\ fMon = MonIdle

InitHide ==
  /\ route \in {"/search", "/recs", "/discover"}
  /\ IF route = "/search" THEN SearchLoaded ELSE SearchInit
  /\ DetailsInit /\ dId = 0
  /\ IF route = "/recs" THEN RecsLoaded /\ userId = 1 ELSE RecsInit /\ selectedGenres = {}
  /\ LibLoaded
  /\ HeartInit /\ ~hCan /\ ~hFav
  /\ RateInit
  /\ hideCalls = <<>>
  /\ hdLast = NoHide
  /\ IF route = "/discover" THEN DiscoverLoaded ELSE sections = <<>>
  /\ AuthIdle
  /\ HttpIdle
  /\ SyncIdle
  /\ PageIdle
  /\ Rendered

NextHide ==
  \/ \E x \in Shows :
       SearchHide(x) /\ UNCHANGED <<route, detailsVars, recsVars, favVars, heartVars, rateVars, authVars, httpVars, syncVars, pageVars, guardVars>>
  \/ \E i \in 1..Len(hideCalls) :
       SearchHideResolve(i) /\ UNCHANGED <<route, detailsVars, recsVars, favVars, heartVars, rateVars, authVars, httpVars, syncVars, pageVars, guardVars>>
  \/ \E i \in 1..Len(hideCalls) :
       SearchHideReject(i) /\ UNCHANGED <<route, detailsVars, recsVars, favVars, heartVars, rateVars, authVars, httpVars, syncVars, pageVars, guardVars>>
  \/ \E x \in RecShows :
       RecsHide(x) /\ UNCHANGED <<route, loadVars, favVars, heartVars, rateVars, authVars, httpVars, syncVars, pageVars, guardVars>>
  \/ \E i \in 1..Len(hideCalls) :
       RecsHideResolve(i) /\ UNCHANGED <<route, loadVars, favVars, heartVars, rateVars, authVars, httpVars, syncVars, pageVars, guardVars>>
  \/ \E i \in 1..Len(hideCalls) :
       RecsHideReject(i) /\ UNCHANGED <<route, loadVars, favVars, heartVars, rateVars, authVars, httpVars, syncVars, pageVars, guardVars>>
  \/ \E x \in Shows :
       DiscoverHide(x) /\ UNCHANGED <<route, loadVars, recsVars, favVars, heartVars, rateVars, authVars, httpVars, syncVars, pageVars, guardVars>>
  \/ \E i \in 1..Len(hideCalls) :
       DiscoverHideResolve(i) /\ UNCHANGED <<route, loadVars, recsVars, favVars, heartVars, rateVars, authVars, httpVars, syncVars, pageVars, guardVars>>
  \/ \E i \in 1..Len(hideCalls) :
       DiscoverHideReject(i) /\ UNCHANGED <<route, loadVars, recsVars, favVars, heartVars, rateVars, authVars, httpVars, syncVars, pageVars, guardVars>>

SpecHide == InitHide /\ [][NextHide]_vars

(***************************************************************************)
(* SpecAuth: the session, from the construction of AuthProvider.           *)
(***************************************************************************)
InitAuth ==
  /\ route = "AuthProvider"
  /\ SearchInit
  /\ DetailsInit /\ dId = 0
  /\ RecsInit /\ selectedGenres = {}
  /\ FavInit /\ userId = 0
  /\ HeartInit /\ ~hCan /\ ~hFav
  /\ RateInit
  /\ HideInit
  /\ AuthInit
  /\ HttpIdle
  /\ SyncIdle
  /\ PageIdle
  /\ Rendered

AuthRest == <<route, loadVars, recsVars, favVars, heartVars, rateVars, hideVars, httpVars, syncVars, pageVars>>

NextAuth ==
  \/ \E i \in 1..Len(authReqs) : RestoreResolve(i) /\ Render /\ UNCHANGED AuthRest
  \/ \E i \in 1..Len(authReqs), st \in ErrStatus : RestoreReject(i, st) /\ Render /\ UNCHANGED AuthRest
  \/ Login("login") /\ Render /\ UNCHANGED AuthRest
  \/ Login("register") /\ Render /\ UNCHANGED AuthRest
  \/ \E i \in 1..Len(authReqs), t \in 0..MaxTok : ExchangeResolve(i, t) /\ Render /\ UNCHANGED AuthRest
  \/ \E i \in 1..Len(authReqs), st \in ErrStatus : ExchangeReject(i, st) /\ Render /\ UNCHANGED AuthRest
  \/ \E i \in 1..Len(authReqs) : MeResolve(i) /\ Render /\ UNCHANGED AuthRest
  \/ \E i \in 1..Len(authReqs), st \in ErrStatus : MeReject(i, st) /\ Render /\ UNCHANGED AuthRest
  \/ Logout /\ Render /\ UNCHANGED AuthRest
  \/ \E reload \in BOOLEAN : SignOutClick(reload) /\ Render /\ UNCHANGED AuthRest
  \/ HttpRequest /\ Render /\ UNCHANGED AuthRest
  \/ \E i \in 1..Len(authReqs), st \in {200} \cup ErrStatus :
       HttpResponse(i, st) /\ Render /\ UNCHANGED AuthRest
  \/ RawFetch /\ Render /\ UNCHANGED AuthRest
  \/ \E i \in 1..Len(authReqs) : RawFetchSettle(i) /\ Render /\ UNCHANGED AuthRest

SpecAuth == InitAuth /\ [][NextAuth]_vars

(***************************************************************************)
(* SpecHttp: one api module of the three, one call at a time.              *)
(***************************************************************************)
InitHttp ==
  /\ route = "http"
  /\ SearchInit
  /\ DetailsInit /\ dId = 0
  /\ RecsInit /\ selectedGenres = {}
  /\ FavInit /\ userId = 0
  /\ HeartInit /\ ~hCan /\ ~hFav
  /\ RateInit
  /\ HideInit
  /\ apiVariant \in ApiVariants
  /\ token \in {0, 1}
  /\ user = 0
  /\ aLoading = FALSE
  /\ authReqs = <<>>
  /\ userVia = 0
  /\ aLast = NoResp
  /\ aSent = NoSent
  /\ HttpInit
  /\ SyncIdle
  /\ PageIdle
  /\ Rendered

HttpRest == <<route, loadVars, recsVars, favVars, heartVars, rateVars, hideVars, syncVars, pageVars, guardVars>>

NextHttp ==
  \/ \E path \in Paths, m \in Methods : HttpSend(path, m) /\ UNCHANGED HttpRest
  \/ \E h \in Helpers, oneArg \in BOOLEAN : HelperCall(h, oneArg) /\ UNCHANGED HttpRest
  \/ HelperMeResolve /\ UNCHANGED HttpRest
  \/ \E st \in ErrStatus, b \in Bodies : HelperMeReject(st, b) /\ UNCHANGED HttpRest
  \/ \E st \in OkStatus \cup ErrStatus, b \in Bodies : HttpSettle(st, b) /\ UNCHANGED HttpRest

SpecHttp == InitHttp /\ [][NextHttp]_vars

(***************************************************************************)
(* SpecSync: the search page of a logged-in user whose favourites were     *)
(* loaded, together with the server that answers the toggles.              *)
(***************************************************************************)
InitSync ==
  /\ route = "/search"
  /\ SearchLoaded
  /\ DetailsInit /\ dId = 0
  /\ RecsInit /\ selectedGenres = {}
  /\ LibLoaded /\ userId = 1
  /\ HeartInit /\ ~hCan /\ ~hFav
  /\ RateInit
  /\ HideInit
  /\ AuthIdle
  /\ HttpIdle
  /\ SyncIdle
  /\ PageIdle
  /\ Rendered

SyncRest == <<route, loadVars, recsVars, heartVars, rateVars, hideVars, authVars, httpVars, pageVars, guardVars>>

NextSync ==
  \/ \E x \in 0..MaxShow : SyncToggleFav(x) /\ UNCHANGED SyncRest
  \/ \E i \in 1..Len(favCalls) : SyncToggleFavResolve(i) /\ UNCHANGED SyncRest
  \/ \E i \in 1..Len(favCalls), m \in ErrMsgs : SyncToggleFavReject(i, m) /\ UNCHANGED SyncRest

SpecSync == InitSync /\ [][NextSync]_vars

(***************************************************************************)
(* SpecPage: the ratings page.                                             *)
(***************************************************************************)
InitPage ==
  /\ route = "/ratings"
  /\ SearchInit
  /\ DetailsInit /\ dId = 0
  /\ RecsInit /\ selectedGenres = {}
  /\ FavInit /\ userId = 0
  /\ HeartInit /\ ~hCan /\ ~hFav
  /\ RateInit
  /\ HideInit
  /\ AuthIdle
  /\ HttpIdle
  /\ SyncIdle
  /\ PageInit
  /\ Rendered

PageRest == <<route, loadVars, recsVars, favVars, heartVars, rateVars, hideVars, authVars,
              httpVars, syncVars, guardVars>>

NextPage ==
  \/ \E t \in 0..MaxShow, v \in RatingInputs : AddNew(t, v) /\ UNCHANGED PageRest
  \/ \E c \in pCalls : AddResolve(c) /\ UNCHANGED PageRest
  \/ \E c \in pCalls : AddReject(c) /\ UNCHANGED PageRest
  \/ \E t \in Shows, v \in RatingInputs, edited \in BOOLEAN :
       SaveRow(t, v, edited) /\ UNCHANGED PageRest
  \/ \E c \in pCalls : SaveResolve(c) /\ UNCHANGED PageRest
  \/ \E c \in pCalls : SaveReject(c) /\ UNCHANGED PageRest

SpecPage == InitPage /\ [][NextPage]_vars

(***************************************************************************)
(* C1.  Stale discard on the search page and the show-details page: a load *)
(* whose effect was cleaned up by a later trigger changes nothing of the   *)
(* view (results / show, error, loading) when it resolves or rejects, and  *)
(* once no current load is in flight the view was last written by the most *)
(* recently triggered effect run (for the details page: the show on screen *)
(* without an error is the show of the current route parameter).           *)
(***************************************************************************)
C1_StaleSettleIsNoOp ==
  /\ \A r \in sRuns : (~r.alive /\ r \notin sRuns') => UNCHANGED <<results, err, loading>>
  /\ \A r \in dRuns : (r.cancelled /\ r \notin dRuns') => UNCHANGED <<dShow, dErr, dLoading>>

C1_LatestWins ==
  /\ (\A r \in sRuns : ~r.alive) => sCommit = sGen
  /\ (\A r \in dRuns : r.cancelled) => /\ dCommit = dGen
                                       /\ dErr = Null => dShow = dId

C1_StaleDiscard == [][C1_StaleSettleIsNoOp]_vars /\ []C1_LatestWins

\* a superseded load settled after the later load had committed its result
C1_Witness ==
  \/ /\ route = "/search" /\ sDropped /\ sRuns = {} /\ sCommit = sGen
     /\ results # {} /\ ~loading
  \/ /\ route = "/show/:tmdb_id" /\ dDropped /\ dRuns = {} /\ dCommit = dGen
     /\ dId \in Shows /\ dShow = dId /\ dErr = Null /\ ~dLoading

(***************************************************************************)
(* C2.  Recommendations page: when loadRecs was triggered twice and the    *)
(* response of the earlier call arrives after the response of the later    *)
(* call was applied, the earlier response changes none of items, err and   *)
(* loading.                                                                *)
(***************************************************************************)
C2_EarlierResponseIsNoOp ==
  \A r \in rLoads : (r \notin rLoads' /\ rCommit > r.gen) =>
                       UNCHANGED <<rItems, rErr, rLoading>>

C2_OnlyLatestLoadRecsMutates == [][C2_EarlierResponseIsNoOp]_vars

(***************************************************************************)
(* C3.  Search page toggleFav(x), x not a favourite, addFavorite fails:    *)
(* when toggleFav resolves x is again not a favourite.  As stated in the   *)
(* claim the failure reaches the caller (the promise of toggleFav          *)
(* rejects); in the code the catch block reports it with alert() and the   *)
(* promise resolves.                                                       *)
(***************************************************************************)
\* the step is the catch block of a toggleFav call that was adding a favourite
C3_AddFailed == Len(favCalls') < Len(favCalls) /\ ~fLast'.ok /\ ~fLast'.call.isFav

C6_RevertToOwnSnapshot ==
  [][(Len(favCalls') < Len(favCalls) /\ ~fLast'.ok) =>
       ((fLast'.call.tmdb \in favSet') <=> fLast'.call.isFav)]_vars

\* a call issued while an earlier one for the same show was in flight failed
\* and put back the flag of the time it was issued
C6_Witness ==
  /\ route = "/search"
  /\ ~fLast.ok /\ fLast.call.overlapped /\ fLast.call.isFav
  /\ fLast.call.tmdb \in favSet
  /\ favCalls = <<>>

(***************************************************************************)
(* C7.  Idempotent toggle: two sequential favourite toggles of one show    *)
(* (the second called after the first has resolved, nothing else writing   *)
(* the favourites in between) whose remote calls both succeed leave the    *)
(* favourite flag as it was before the first: toggleFav of the search page *)
(* and HeartButton.toggle.                                                 *)
(***************************************************************************)
C7_IdempotentToggle ==
  /\ fMon.stage = 4 => ((fMon.x \in favSet) <=> fMon.v0)
  /\ hMon.stage = 4 => (hFav <=> hMon.v0)

C7_Witness ==
  \/ route = "/search" /\ fMon.stage = 4 /\ fMon.v0 /\ fMon.x \in favSet
  \/ route = "HeartButton" /\ hMon.stage = 4 /\ ~hMon.v0 /\ ~hFav

(***************************************************************************)
(* C5.  Two rating calls for one show x, the second issued while the first *)
(* is in flight: when the second succeeds and the first fails after that,  *)
(* the local rating of x is the second call's value; no failing rating     *)
(* call changes any local rating (rate of the search page, handleRate of   *)
(* the recommendations page).                                              *)
(***************************************************************************)
C5_FailedRateIsNoOp ==
  (Len(rateCalls') < Len(rateCalls) /\ ~rtLast'.ok)
    => (ratingsMap' = ratingsMap /\ rRatings' = rRatings)

C5_SecondRatingStands == rtMon.stage = 4 => RatingOf(rtMon.x) = rtMon.b

C5_LateFailureKeepsLaterRating ==
  [][C5_FailedRateIsNoOp]_vars /\ []C5_SecondRatingStands

C5_Witness ==
  /\ rtMon.stage = 4 /\ rtMon.b = 9 /\ rtMon.x \in Shows
  /\ ~rtLast.ok /\ rtLast.tmdb = rtMon.x /\ rtLast.rating = 5
  /\ RatingOf(rtMon.x) = 9
  /\ rateCalls = <<>>

(***************************************************************************)
(* C4.  Hide: when the markNotInterested call of a hide fails, the show is *)
(* displayed again by the view it was hidden from (search results,         *)
(* recommendations, discover sections).                                    *)
(***************************************************************************)
C4_FailedHideShowsAgain ==
  (Len(hideCalls') < Len(hideCalls) /\ ~hdLast'.ok)
    => \/ route = "/search" /\ hdLast'.tmdb \in results'
       \/ route = "/recs" /\ hdLast'.tmdb \in rItems'
       \/ route = "/discover" /\ hdLast'.tmdb \in SectionShows(sections')

C4_HideRestoredOnFailure == [][C4_FailedHideShowsAgain]_vars

(***************************************************************************)
(* C8.  login / register of AuthProvider: the step that handles the answer *)
(* of the credential exchange writes no token, and when the me() call that *)
(* follows a successful exchange fails, no token is persisted.             *)
(***************************************************************************)
C8_TokenOnlyAfterMe ==
  /\ (aLast'.kind \in {"login", "register"} /\ aLast'.status = 200
        /\ Len(authReqs') = Len(authReqs))
       => token' = token
  /\ (aLast'.kind = "me" /\ aLast'.status # 200) => token' = 0

C8_NoTokenBeforeIdentity == [][C8_TokenOnlyAfterMe]_vars

(***************************************************************************)
(* C9.  After a step in which http() handled a 401 or a 403 response, no   *)
(* token is persisted and AuthProvider's user is null.                     *)
(***************************************************************************)
C9_Unauthorized == aLast'.status \in {401, 403} => (token' = 0 /\ user' = 0)

C9_UnauthorizedEndsSession == [][C9_Unauthorized]_vars

(***************************************************************************)
(* C10.  Session consistency: whenever AuthProvider's user is non-null, a  *)
(* token is persisted and it is the token carried by the me() call that    *)
(* produced that user.                                                     *)
(***************************************************************************)
C10_SessionConsistent == user # 0 => (token # 0 /\ token = userVia)

(***************************************************************************)
(* C11.  Session restore: the step that handles the outcome of the me()    *)
(* call of the restore effect sets loading to false; when me() failed,     *)
(* with whatever status, it also leaves no token persisted and user null.  *)
(***************************************************************************)
C11_RestoreSettled ==
  (aLast'.kind = "restore" /\ Len(authReqs') < Len(authReqs))
    => /\ aLoading' = FALSE
       /\ aLast'.status # 200 => (token' = 0 /\ user' = 0)

C11_RestoreEndsLoading == [][C11_RestoreSettled]_vars

C11_Witness ==
  /\ aLast.kind = "restore" /\ aLast.status = 500
  /\ token = 0 /\ user = 0 /\ ~aLoading

(***************************************************************************)
(* C12.  logout(): one step leaves no token persisted and user null, sends *)
(* no request and changes no request in flight; it can be taken in every   *)
(* reachable state.                                                        *)
(***************************************************************************)
C12_LogoutStep ==
  aLast'.kind = "logout"
    => (token' = 0 /\ user' = 0 /\ authReqs' = authReqs /\ aSent' = NoSent)

C12_LogoutSynchronous == [][C12_LogoutStep]_vars /\ [](ENABLED Logout)

C12_Witness ==
  /\ aLast.kind = "logout" /\ token = 0 /\ user = 0
  /\ userVia = 0 /\ authReqs # <<>>

(***************************************************************************)
(* C13.  Every request sent to an endpoint other than /auth/login and      *)
(* /auth/register while a token is stored carries that token in its        *)
(* Authorization header, whether sent by http() or by a fetch(apiUrl(...)) *)
(* of a page or component.                                                 *)
(***************************************************************************)
C13_AuthorizationAttached ==
  (aSent.kind \notin {"none", "login", "register"} /\ aSent.stored # 0)
    => aSent.tok = aSent.stored

(***************************************************************************)
(* C14.  A login or register request carries no Authorization header, also *)
(* when a token was stored at the time login() / register() was called.    *)
(***************************************************************************)
C14_ExchangeWithoutHeader ==
  aSent.kind \in {"login", "register"} => aSent.tok = 0

C14_Witness ==
  /\ aSent.kind \in {"login", "register"} /\ aSent.stored # 0 /\ aSent.tok = 0
  /\ token = 0

(***************************************************************************)
(* C19.  Cross-view consistency: when the isFavorite prop of a mounted     *)
(* HeartButton changes because a favourite toggle of its show succeeded in *)
(* another view, the HeartButton shows the new favourite value.            *)
(***************************************************************************)
C19_PropShown == hProp' # hProp => hFav' = hProp'

C19_ToggleShownEverywhere == [][C19_PropShown]_vars

(***************************************************************************)
(* C20.  Bulk-load field isolation on the search page: when the favourites *)
(* list load of the favourites + ratings effect fails, the step that       *)
(* applies the failure leaves the rating of every show untouched.          *)
(***************************************************************************)
C20_FailedLoadKeepsRatings ==
  \A r \in libRuns : (r.alive /\ LibReject(r)) => ratingsMap' = ratingsMap

C20_LoadFieldIsolation == [][C20_FailedLoadKeepsRatings]_vars

(***************************************************************************)
(* C15.  Endpoint normalization: for a base ending in the routing prefix   *)
(* /api and every path p that starts with "/", buildUrl("/api" + p) and    *)
(* buildUrl(p) are the same URL, base + p.                                 *)
(***************************************************************************)
C15_Domain ==
  /\ xReq.stage = "pending"
  /\ xBase[Len(xBase)] = "api"
  /\ StartsWith(xReq.path, <<"/">>)

C15_SameUrl ==
  /\ xReq.url = xBase \o xReq.path
  /\ BuildUrl(apiVariant, xBase, ApiPrefix \o xReq.path) = xReq.url

C15_PrefixOptional == C15_Domain => C15_SameUrl

\* C15 as amended: the same for every such p that is not "/api" itself and
\* does not start with "/api/"
C15_PrefixOptionalOnce ==
  (/\ C15_Domain
   /\ xReq.path # ApiPrefix
   /\ ~StartsWith(xReq.path, ApiPrefix \o <<"/">>)) => C15_SameUrl

C15_Witness ==
  /\ xReq.stage = "pending"
  /\ apiVariant = 2
  /\ xBase = RemoteBase
  /\ xReq.path = <<"/", "library", "/">>
  /\ xReq.url = RemoteBase \o <<"/", "library", "/">>
  /\ BuildUrl(2, xBase, ApiPrefix \o xReq.path) = xReq.url

(***************************************************************************)
(* C16.  For every path that is not absolute, with or without a leading    *)
(* slash and with or without the /api prefix, the URL of buildUrl holds    *)
(* the routing prefix of the base exactly once: the URL starts with the    *)
(* base, and what follows the base does not start with the prefix again.   *)
(***************************************************************************)
C16_PrefixExactlyOnce ==
  (/\ xReq.stage = "pending"
   /\ ~IsAbsolute(xReq.path)
   /\ Cardinality({i \in 1..Len(xReq.path) : xReq.path[i] = "api"}) <= 1)
    => LET norm == BaseNorm(xBase)
           rest == Slice(xReq.url, Len(norm))
       IN  /\ StartsWith(xReq.url, norm)
           /\ rest # ApiPrefix
           /\ ~StartsWith(rest, ApiPrefix \o <<"/">>)

(***************************************************************************)
(* C17.  At-most-once delivery: a call of http(), and so a call of a       *)
(* mutating helper, sends its POST / DELETE request at most once, whether  *)
(* the answer is a success, an error, or has not arrived; a helper that    *)
(* still awaits me() has sent none.                                        *)
(***************************************************************************)
C17_AtMostOnce ==
  /\ xReq.sent <= 1
  /\ xReq.stage = "lookup" => xReq.sent = 0

C17_Witness ==
  /\ xReq.helper = "removeFavorite"
  /\ xReq.method = "DELETE"
  /\ xReq.lookups = 1
  /\ xReq.stage = "done"
  /\ xOut.status = 500
  /\ xOut.thrown
  /\ xReq.sent = 1

(***************************************************************************)
(* C18.  Error message of http(): for a response that is not ok, a body    *)
(* {detail: s} gives the message s, a body {detail: [{msg: m}, ...]} gives *)
(* the message m, and a body without a detail (a JSON object with no       *)
(* detail and no message, a body that is not JSON, no body) gives the      *)
(* response status.                                                        *)
(***************************************************************************)
C18_MessageExtraction ==
  xOut.thrown =>
    /\ xOut.body.shape \in {"detailString", "detailArray"}
         => xOut.message = [text |-> xOut.body.text, status |-> 0]
    /\ xOut.body.shape \in {"object", "text", "none"}
         => xOut.message.status = xOut.status

(***************************************************************************)
(* C21.  A bulk favourites / ratings load of the search page that was      *)
(* issued before a local toggleFav of show x, and is answered after it,    *)
(* leaves the favourite value of x as the toggle set it.  fMon.stage >= 1  *)
(* says that x = fMon.x was toggled after the last user change and after   *)
(* the last applied load, so after the one live load was issued.           *)
(***************************************************************************)
C21_LateLoadKeepsToggle ==
  \A r \in libRuns, p \in FavPayloads :
    (r.alive /\ fMon.stage >= 1 /\ LibResolve(r, p))
      => (fMon.x \in favSet' <=> fMon.x \in favSet)

C21_LoadKeepsNewerLocalState == [][C21_LateLoadKeepsToggle]_vars

(***************************************************************************)
(* C23.  A session that a completed login() established (user set by the   *)
(* me() of the login, with the token the login stored) is not cleared when *)
(* the mount-time restore's me() fails afterwards.  While the restore is   *)
(* pending only a login or register can have set user.                     *)
(***************************************************************************)
C23_LateRestoreFailure ==
  (/\ aLast'.kind = "restore"
   /\ aLast'.status # 200
   /\ Len(authReqs') < Len(authReqs)
   /\ user # 0
   /\ token # 0
   /\ userVia = token)
    => (user' = user /\ token' = token)

C23_RestoreKeepsLaterLogin == [][C23_LateRestoreFailure]_vars

(***************************************************************************)
(* C24.  Search page: once every issued search request has resolved or     *)
(* rejected, loading is false, also when the query was changed or cleared  *)
(* to empty while a request was in flight.                                 *)
(***************************************************************************)
C24_SettledNotLoading == (route = "/search" /\ sRuns = {}) => ~loading

(***************************************************************************)
(* C25.  Once every favourite request the search page sent has been        *)
(* answered, all of them with success, the page's favourite flag of every  *)
(* show equals the server's, in whatever order the requests were processed *)
(* and answered.                                                           *)
(***************************************************************************)
C25_ConvergesToServer ==
  (route = "/search" /\ favCalls = <<>> /\ syOk) => favSet = srvFav

(***************************************************************************)
(* C28.  HeartButton.toggle: at most one favourite call of the button is   *)
(* in flight, and busy is true exactly while it is; a step taken while     *)
(* busy that does not settle the call issues nothing; fav changes only in  *)
(* the step in which the call succeeds (hMon.stage 2 or 4), so it keeps    *)
(* its value on failure; and busy is false after every outcome.            *)
(***************************************************************************)
C28_OneCall ==
  /\ Cardinality(hCall) <= 1
  /\ hBusy <=> hCall # {}

C28_ToggleStep ==
  /\ (hBusy /\ hBusy') => hCall' = hCall
  /\ hFav' # hFav => (hCall # {} /\ hCall' = {} /\ hMon'.stage \in {2, 4})
  /\ hCall' # hCall /\ hCall # {} => ~hBusy'

C28_HeartToggleSafe == [](C28_OneCall) /\ [][C28_ToggleStep]_vars

C28_Witness ==
  /\ route = "HeartButton"
  /\ hMon.stage = 2
  /\ hFav # hMon.v0
  /\ ~hBusy
  /\ hCall = {}

(***************************************************************************)
(* C26.  Two rating calls for the same show that both succeed leave the    *)
(* value of the later-issued call as the local rating, in whatever order   *)
(* the answers arrive.  rtMon.stage = 3 says: two calls for rtMon.x were   *)
(* issued, the second with value rtMon.b, and the second succeeded first.  *)
(***************************************************************************)
C26_FirstAnsweredLast ==
  (/\ rtMon.stage = 3
   /\ Len(rateCalls) = 1
   /\ rateCalls' = <<>>
   /\ rtLast'.ok
   /\ rtLast'.tmdb = rtMon.x)
    => rtMon.b = (IF route = "/recs" THEN RatingIn(rRatings', rtMon.x)
                  ELSE ratingsMap'[rtMon.x])

C26_LaterIssuedRatingWins == [][C26_FirstAnsweredLast]_vars

(***************************************************************************)
(* C27.  Recs page gating: in every state with no request in flight,       *)
(* items is non-empty only if favorites holds at least MIN_FAVORITES       *)
(* distinct shows.                                                         *)
(***************************************************************************)
C27_ItemsOnlyWithEnoughFavorites ==
  (route = "/recs" /\ rLoads = {} /\ rFavCalls = {} /\ ~rFavLoad /\ rItems # {})
    => Cardinality(FavSetOf(favorites)) >= MIN_FAVORITES

(***************************************************************************)
(* C22.  Rating validation on the ratings page: a handler called with a    *)
(* rating outside [0, 10] or with a show id that is not positive sends no  *)
(* upsertRating request and changes no state of the page; so no request in *)
(* flight carries such a rating or id.                                     *)
(***************************************************************************)
C22_RejectedLocally ==
  (pLast'.op \in {"add", "save"} /\ ~CanAdd(pLast'.tmdb, pLast'.rating))
    => (~pLast'.sent /\ UNCHANGED <<pItems, pCalls, pBusyAdd, pBusyRows>>)

C22_RatingValidated ==
  /\ [](\A c \in pCalls : CanAdd(c.tmdb, c.rating))
  /\ [][C22_RejectedLocally]_vars

(***************************************************************************)
(* C29.  Ratings page: items holds at most one entry per tmdb_id after any *)
(* sequence of saveRow and addNew operations answered in any order, the    *)
(* loaded list having had none twice; and a failed upsert leaves items     *)
(* unchanged.                                                              *)
(***************************************************************************)
C29_FailedUpsert == (pLast'.op \in {"added", "saved"} /\ ~pLast'.ok) => pItems' = pItems

C29_OneEntryPerShow ==
  /\ [](\A i, j \in 1..Len(pItems) : pItems[i].tmdb_id = pItems[j].tmdb_id => i = j)
  /\ [][C29_FailedUpsert]_vars

\* addNew of a show was answered with success after a row had been saved,
\* and the list holds that show first and the saved row behind it
C29_Witness ==
  /\ route = "/ratings"
  /\ pLast.op = "added" /\ pLast.ok
  /\ Len(pItems) = 2
  /\ pItems[1] = Entry(pLast.tmdb, pLast.rating)
  /\ pItems[2].rating # 10

(***************************************************************************)
(* C30.  ProtectedRoute renders its children only when loading is false    *)
(* and user is set; while loading it renders neither children nor a        *)
(* redirect; with loading false and no user it redirects to /login.        *)
(***************************************************************************)
C30_GuardedChildren ==
  /\ guardView = "children" <=> (~aLoading /\ user # 0)
  /\ aLoading => guardView \notin {"children", "redirect"}
  /\ (~aLoading /\ user = 0) => guardView = "redirect"

C30_Witness ==
  /\ route = "AuthProvider"
  /\ guardView = "children"
  /\ user # 0
  /\ aLast.kind = "restore"

====
